---- MODULE Spec2Model ----
(***************************************************************************)
(* Model of the HW -> BTOR2 emitter (LowerHWtoBTOR2.cpp).                  *)
(*                                                                         *)
(* The pass walks every top-level hw.module: ports first, then the body    *)
(* ops in walk order, then one transition per recorded register, then a    *)
(* banner.  The IR handed to the pass is revealed one port / one op at a   *)
(* time: the pass is single-pass and never looks ahead, so drawing the     *)
(* next port or op when it is visited is the same as fixing the module     *)
(* beforehand.  Operands are drawn among the values already defined in     *)
(* the module (dependency order); a register's next value is read by the   *)
(* code only in the transition phase and is drawn there.                   *)
(*                                                                         *)
(* DenseMap::at on an absent key is an assertion failure in a build with   *)
(* assertions and a read past the bucket array otherwise.  The model takes *)
(* both outcomes at every such read: the process dies, or the read returns *)
(* the word that lies past the buckets of that map, which is any value of  *)
(* GarbageVals, drawn when the pass object is constructed (junk).          *)
(***************************************************************************)
EXTENDS Integers, Sequences, FiniteSets, TLC

\* ---------------------------------------------------------------- bounds
\* size of the IR handed to one run of the pass: modules + ports + ops
MaxIR == 4

\* ------------------------------------------------------- program constants
\* static constexpr size_t noLID = -1UL (printed as 2^64-1)
noLID == -1
\* size_t lid = 1
FirstLID == 1

sortStr == "sort"
bitvecStr == "bitvecStr"
inputStr == "input"
resetStr == "reset"
zeroStr == "zero"
constdStr == "constd"
sliceStr == "slice"
notStr == "not"
neqStr == "neq"
hwNeqStr == "ne"
iteStr == "ite"
impliesStr == "implies"
stateStr == "state"
nextStr == "next"
badStr == "bad"
constraintStr == "constraint"

\* the btor2 mnemonic each visit(comb::XOp) hands to visitBinOp
BinInst ==
  [k \in {"comb.add", "comb.sub", "comb.mul", "comb.divs", "comb.divu",
          "comb.mods", "comb.shl", "comb.shru", "comb.shrs", "comb.and",
          "comb.or", "comb.xor", "comb.concat"} |->
     CASE k = "comb.add" -> "add"
       [] k = "comb.sub" -> "sub"
       [] k = "comb.mul" -> "mul"
       [] k = "comb.divs" -> "sdiv"
       [] k = "comb.divu" -> "udiv"
       [] k = "comb.mods" -> "smod"
       [] k = "comb.shl" -> "sll"
       [] k = "comb.shru" -> "srl"
       [] k = "comb.shrs" -> "sra"
       [] k = "comb.and" -> "and"
       [] k = "comb.or" -> "or"
       [] k = "comb.xor" -> "xor"
       [] k = "comb.concat" -> "concat"]

\* --------------------------------------------------- the inputs enumerated
\* bit widths of the integer types of the modules
Widths == {1, 2}
\* signed values of the hw.constant ops (getSExtValue)
ConstVals == {0, -1}
\* binary comb ops the modules are built from
BinKinds == {"comb.and"}
\* icmp predicates the modules are built from (stringifyICmpPredicate)
Preds == {"eq", "ne"}
\* ports a module may declare: w = 0 is a !seq.clock
PortChoices ==
  { [name |-> "a", in |-> TRUE, w |-> 1],
    [name |-> "reset", in |-> TRUE, w |-> 1],
    [name |-> "clk", in |-> TRUE, w |-> 0],
    [name |-> "o", in |-> FALSE, w |-> 1] }
\* what a read past the buckets of a DenseMap may return
GarbageVals == {noLID, 0}

\* no defining op (nullptr): the defining op of a block argument
NullOp == 0

VARIABLES
  pc,            \* position of runOnOperation
  ports,         \* every port revealed so far, all modules, in declared order
  ops,           \* every op revealed so far, all modules; op id = index
  regIdx,        \* loop index i of the register transition loop
  lid, resetLID, sortToLIDMap, constToLIDMap, opLIDMap, opAliasMap,
  inputLIDs, regOps,
  out,           \* llvm::outs(): one sequence of lines per module stream
  junk,          \* the word past the buckets of sortToLIDMap / constToLIDMap
  mod,           \* LTL -> Core: the ops of the module handed to the pass
  orig,          \* the module as it was when the pass started
  status,        \* LTL -> Core: "input", then the result of the conversion
  regv,          \* the value held by each register of the lowered module
  inp,           \* the values of the module's inputs in the current cycle
  hist           \* the values of the inputs in the cycles before

tables == <<lid, resetLID, sortToLIDMap, constToLIDMap, opLIDMap, opAliasMap,
            inputLIDs, regOps>>
\* the state of the emitter and the state of the LTL -> Core lowering
btor == <<pc, ports, ops, regIdx, lid, resetLID, sortToLIDMap, constToLIDMap,
          opLIDMap, opAliasMap, inputLIDs, regOps, out, junk>>
ltl == <<mod, orig, status, regv, inp, hist>>
vars == <<btor, ltl>>

\* ------------------------------------------------------------ IR helpers
Empty == [x \in {} |-> 0]
Put(f, k, v) == [x \in DOMAIN f \cup {k} |-> IF x = k THEN v ELSE f[x]]

ArgVal(i) == [k |-> "arg", i |-> i]
OpVal(i) == [k |-> "op", i |-> i]
\* Value::getDefiningOp
DefiningOp(v) == IF v.k = "op" THEN v.i ELSE NullOp

\* number of the module being walked
CurMod == Len(out)
\* PortInfo::argNum of the k-th port: its index among the ports of its
\* direction
ArgNum(k) ==
  Cardinality({j \in 1..(k - 1) : ports[j].m = ports[k].m /\ ports[j].in = ports[k].in})
\* the input port behind block argument i of the current module
CurPorts == {k \in 1..Len(ports) : ports[k].m = CurMod}
PortOfArg(i) == CHOOSE k \in CurPorts : ports[k].in /\ ArgNum(k) = i
InputArgs == {ArgNum(k) : k \in {j \in CurPorts : ports[j].in}}
\* hw::getBitWidth of a value's type
WidthOf(v) == IF v.k = "arg" THEN ports[PortOfArg(v.i)].w ELSE ops[v.i].w
\* the integer-typed values defined so far in the current module
Vals ==
  {ArgVal(i) : i \in {j \in InputArgs : ports[PortOfArg(j)].w > 0}}
    \cup {OpVal(i) : i \in {j \in 1..Len(ops) : ops[j].m = CurMod /\ ops[j].w > 0}}
ValsW(w) == {v \in Vals : WidthOf(v) = w}

Op(kind, args, w) ==
  [kind |-> kind, args |-> args, w |-> w, m |-> CurMod, low |-> 0,
   val |-> 0, pred |-> "", ifop |-> NullOp]

\* ------------------------------------------------------------ lines
\* one printed line: <lid> <inst> [<ty>] [<sid>] <args...> [<name>].  Not
\* printed, kept for stating properties: src, the op handed to setOpLID by
\* the emitter (NullOp: none); op, the IR op being visited (NullOp: a port);
\* w, the width the emitter was called with (0: none)
Line(inst, ty, sid, args, name, src, w) ==
  [lid |-> 0, inst |-> inst, ty |-> ty, sid |-> sid, args |-> args,
   name |-> name, src |-> src, op |-> NullOp, w |-> w]

\* the emitter's state as one value, threaded through the helper calls of
\* one handler; ab: the process died inside the handler
Cur(id) ==
  [cur |-> id, lid |-> lid, resetLID |-> resetLID, sortToLIDMap |-> sortToLIDMap,
   constToLIDMap |-> constToLIDMap, opLIDMap |-> opLIDMap,
   opAliasMap |-> opAliasMap, inputLIDs |-> inputLIDs, regOps |-> regOps,
   out |-> out, ab |-> FALSE]

Abort(s) == [s EXCEPT !.ab = TRUE]
Bind(S, F(_)) == UNION {IF s.ab THEN {s} ELSE F(s) : s \in S}

\* llvm::outs() << lid++ << ... << nlStr
Emit(s, line) ==
  [s EXCEPT !.out[Len(s.out)] = Append(@, [line EXCEPT !.lid = s.lid, !.op = s.cur]),
            !.lid = @ + 1]

\* DenseMap::at: the value read, or trap (the process dies)
AtVals(map, key, past) ==
  IF key \in DOMAIN map THEN {[trap |-> FALSE, v |-> map[key]]}
  ELSE {[trap |-> TRUE, v |-> noLID], [trap |-> FALSE, v |-> past]}
\* sortToLIDMap.at(width), constToLIDMap.at({0, width})
SortAt(s, width) == AtVals(s.sortToLIDMap, width, junk.sort)
ConstAt(s, width) == AtVals(s.constToLIDMap, <<0, width>>, junk.const)

getOpAlias(s, op) ==
  IF op \in DOMAIN s.opAliasMap THEN s.opAliasMap[op] ELSE op

\* getOpLID(Operation *)
getOpLIDOp(s, op) ==
  LET defOp == getOpAlias(s, op)
  IN IF defOp \in DOMAIN s.opLIDMap THEN s.opLIDMap[defOp] ELSE noLID

\* getOpLID(Value)
getOpLID(s, v) ==
  LET defOp == getOpAlias(s, DefiningOp(v))
  IN IF defOp \in DOMAIN s.opLIDMap THEN s.opLIDMap[defOp]
     ELSE IF v.k = "arg" /\ v.i \in DOMAIN s.inputLIDs THEN s.inputLIDs[v.i]
     ELSE noLID

\* setOpLID recording the line id after the one the line is printed with
setOpLIDNextLine(s, op) ==
  IF op # NullOp THEN [s EXCEPT !.opLIDMap = Put(@, op, s.lid + 1)] ELSE s

setOpLID(s, op) ==
  IF op # NullOp THEN [s EXCEPT !.opLIDMap = Put(@, op, s.lid)] ELSE s

setOpAlias(s, alias, op) == [s EXCEPT !.opAliasMap = Put(@, alias, op)]

\* genSort without the "already declared" check
genSortAlways(s, type, width) ==
  { IF r.trap THEN Abort(s)
    ELSE Emit([s EXCEPT !.sortToLIDMap = Put(@, width, s.lid)],
              Line(sortStr, type, 0, <<width>>, "", NullOp, width))
    : r \in SortAt(s, width) }

genSort(s, type, width) ==
  { IF r.trap THEN Abort(s)
    ELSE IF r.v # noLID THEN s
    ELSE Emit([s EXCEPT !.sortToLIDMap = Put(@, width, s.lid)],
              Line(sortStr, type, 0, <<width>>, "", NullOp, width))
    : r \in SortAt(s, width) }

genInput(s, width, name) ==
  { IF r.trap THEN Abort(s)
    ELSE Emit(s, Line(inputStr, "", r.v, <<>>, name, NullOp, width))
    : r \in SortAt(s, width) }

genConst(s, value, width, op) ==
  LET s1 == setOpLID(s, op)
  IN { IF r.trap THEN Abort(s1)
       ELSE Emit(s1, Line(constdStr, "", r.v, <<value>>, "", op, width))
       : r \in SortAt(s1, width) }

genZero(s, width) ==
  UNION { IF c.trap THEN {Abort(s)}
          ELSE IF c.v # noLID THEN {s}
          ELSE { IF r.trap THEN Abort(s)
                 ELSE Emit([s EXCEPT !.constToLIDMap = Put(@, <<0, width>>, s.lid)],
                           Line(zeroStr, "", r.v, <<>>, "", NullOp, width))
                 : r \in SortAt(s, width) }
          : c \in ConstAt(s, width) }

genBinOp(s, inst, binop, op1, op2, width) ==
  LET s1 == setOpLID(s, binop)
  IN { IF r.trap THEN Abort(s1)
       ELSE Emit(s1, Line(inst, "", r.v,
                          <<getOpLID(s1, op1), getOpLID(s1, op2)>>, "", binop, width))
       : r \in SortAt(s1, width) }

genSlice(s, srcop, op0, lowbit, width) ==
  LET s1 == setOpLID(s, srcop)
  IN { IF r.trap THEN Abort(s1)
       ELSE Emit(s1, Line(sliceStr, "", r.v,
                          <<getOpLID(s1, op0), width - 1, lowbit>>, "", srcop,
                          width))
       : r \in SortAt(s1, width) }

\* genUnaryOp(Operation *srcop, Operation *op0, ...)
genUnaryOpOp(s, srcop, op0, inst, width) ==
  LET s1 == setOpLID(s, srcop)
  IN { IF r.trap THEN Abort(s1)
       ELSE Emit(s1, Line(inst, "", r.v, <<getOpLIDOp(s1, op0)>>, "", srcop, width))
       : r \in SortAt(s1, width) }

\* genUnaryOp(Operation *srcop, Value op0, ...)
genUnaryOp(s, srcop, op0, inst, width) ==
  genUnaryOpOp(s, srcop, DefiningOp(op0), inst, width)

genBad(s, assertop) ==
  {Emit(s, Line(badStr, "", 0, <<getOpLIDOp(s, assertop)>>, "", NullOp, 0))}

genConstraint(s, expr) ==
  {Emit(s, Line(constraintStr, "", 0, <<getOpLID(s, expr)>>, "", NullOp, 0))}

\* genIte(Operation *, Value, Value, Value, int64_t)
genIteVal(s, srcop, cond, t, f, width) ==
  LET s1 == setOpLID(s, srcop)
  IN { IF r.trap THEN Abort(s1)
       ELSE Emit(s1, Line(iteStr, "", r.v,
                          <<getOpLID(s1, cond), getOpLID(s1, t), getOpLID(s1, f)>>,
                          "", srcop, width))
       : r \in SortAt(s1, width) }

\* genIte(Operation *, size_t, size_t, size_t, int64_t)
genIte(s, srcop, condLID, tLID, fLID, width) ==
  LET s1 == setOpLID(s, srcop)
  IN { IF r.trap THEN Abort(s1)
       ELSE Emit(s1, Line(iteStr, "", r.v, <<condLID, tLID, fLID>>, "", srcop, width))
       : r \in SortAt(s1, width) }

\* genImplies(Operation *, Value, Value)
genImplies(s, srcop, lhs, rhs) ==
  LET s1 == setOpLID(s, srcop)
  IN { IF r.trap THEN Abort(s1)
       ELSE Emit(s1, Line(impliesStr, "", r.v,
                          <<getOpLID(s1, lhs), getOpLID(s1, rhs)>>, "", srcop, 1))
       : r \in SortAt(s1, 1) }

genState(s, srcop, width, name) ==
  LET s1 == setOpLID(s, srcop)
  IN { IF r.trap THEN Abort(s1)
       ELSE Emit(s1, Line(stateStr, "", r.v, <<>>, name, srcop, width))
       : r \in SortAt(s1, width) }

genNext(s, next, reg, width) ==
  { IF r.trap THEN Abort(s)
    ELSE Emit(s, Line(nextStr, "", r.v,
                      <<getOpLIDOp(s, reg), getOpLIDOp(s, next)>>, "", NullOp, width))
    : r \in SortAt(s, width) }

requireSort(s, width) == genSort(s, bitvecStr, width)


\* ------------------------------------------------------------ visitors
\* visit(hw::PortInfo &)
visitPort(s, port, argNum) ==
  IF port.in /\ port.w # 0
  THEN Bind(requireSort(s, port.w),
            LAMBDA t :
              LET t1 == [t EXCEPT !.inputLIDs = Put(@, argNum, t.lid)]
                  t2 == IF port.name = resetStr
                        THEN [t1 EXCEPT !.resetLID = t.lid] ELSE t1
              IN genInput(t2, port.w, port.name))
  ELSE {s}

\* visit(hw::ConstantOp)
visitConstant(s, id, o) ==
  Bind(requireSort(s, o.w), LAMBDA t : genConst(t, o.val, o.w, id))

\* visit(hw::WireOp) printing a line for the wire
visitWirePrinting(s, id, o) ==
  {Emit(setOpAlias(s, id, DefiningOp(o.args[1])),
        Line("wire", "", 0, <<>>, "", NullOp, 0))}

\* visit(hw::WireOp)
visitWire(s, id, o) == {setOpAlias(s, id, DefiningOp(o.args[1]))}

\* visitBinOp, reached from visit(comb::AddOp) ... visit(comb::ConcatOp)
visitBinOp(s, id, o) ==
  Bind(requireSort(s, o.w),
       LAMBDA t : genBinOp(t, BinInst[o.kind], id, o.args[1], o.args[2], o.w))

\* visit(comb::ExtractOp)
visitExtract(s, id, o) ==
  Bind(requireSort(s, o.w), LAMBDA t : genSlice(t, id, o.args[1], o.low, o.w))

\* visit(comb::ICmpOp)
visitICmp(s, id, o) ==
  LET pred == IF o.pred = hwNeqStr THEN neqStr ELSE o.pred
  IN Bind(genSort(s, bitvecStr, 1),
          LAMBDA t : genBinOp(t, pred, id, o.args[1], o.args[2], 1))

\* visit(comb::MuxOp)
visitMux(s, id, o) ==
  Bind(requireSort(s, o.w),
       LAMBDA t : genIteVal(t, id, o.args[1], o.args[2], o.args[3], o.w))

\* visit(sv::AssertOp); o.ifop # NullOp: the parent op is an sv.if whose
\* condition is o.args[2]
visitAssert(s, id, o) ==
  LET expr == o.args[1]
      S1 == genSort(s, bitvecStr, 1)
      S2 == IF o.ifop # NullOp
            THEN Bind(Bind(S1, LAMBDA t : genImplies(t, o.ifop, o.args[2], expr)),
                      LAMBDA t : genUnaryOpOp(t, id, o.ifop, notStr, 1))
            ELSE Bind(S1, LAMBDA t : genUnaryOp(t, id, expr, notStr, 1))
  IN Bind(S2, LAMBDA t : genBad(t, id))

\* visit(sv::AssumeOp)
visitAssume(s, id, o) == genConstraint(s, o.args[1])

\* visit(seq::FirRegOp)
visitFirReg(s, id, o) ==
  Bind(Bind(requireSort(s, o.w), LAMBDA t : genState(t, id, o.w, o.name)),
       LAMBDA t : {[t EXCEPT !.regOps = Append(@, id)]})

\* one iteration of the register loop of runOnOperation, for register reg
\* whose next value is nx
regTransition(s, reg, nx, width) ==
  LET next == DefiningOp(nx)
      S2 == Bind(genSort(s, bitvecStr, width), LAMBDA t : genZero(t, width))
      ite(t) ==
        LET nextLID == getOpLIDOp(t, next)
        IN UNION { IF z.trap THEN {Abort(t)}
                   ELSE genIte(t, next, t.resetLID, z.v, nextLID, width)
                   : z \in ConstAt(t, width) }
  IN Bind(Bind(S2, ite), LAMBDA t : genNext(t, next, reg, width))

\* ------------------------------------------------------------ actions
\* the handler returned with state s
Install(s, to) ==
  /\ lid' = s.lid
  /\ resetLID' = s.resetLID
  /\ sortToLIDMap' = s.sortToLIDMap
  /\ constToLIDMap' = s.constToLIDMap
  /\ opLIDMap' = s.opLIDMap
  /\ opAliasMap' = s.opAliasMap
  /\ inputLIDs' = s.inputLIDs
  /\ regOps' = s.regOps
  /\ out' = s.out
  /\ pc' = to

\* the process died inside the handler: nothing of the handler's work is
\* kept (llvm::outs() is buffered and not flushed by abort or SIGSEGV)
Die ==
  /\ pc' = "aborted"
  /\ UNCHANGED <<ports, ops, regIdx, tables, out, junk, ltl>>

Room(n) == Len(out) + Len(ports) + Len(ops) + n <= MaxIR
InBody == pc \in {"ports", "body"}
NewId == Len(ops) + 1

Init ==
  /\ pc = "next"
  /\ ports = <<>>
  /\ ops = <<>>
  /\ regIdx = 1
  /\ lid = FirstLID
  /\ resetLID = noLID
  /\ sortToLIDMap = Empty
  /\ constToLIDMap = Empty
  /\ opLIDMap = Empty
  /\ opAliasMap = Empty
  /\ inputLIDs = Empty
  /\ regOps = <<>>
  /\ out = <<>>
  /\ junk \in [{"sort", "const"} -> GarbageVals]
  /\ mod = <<>>
  /\ orig = <<>>
  /\ status = "none"
  /\ regv = Empty
  /\ inp = Empty
  /\ hist = <<>>

\* getOperation().walk reaches the next hw.module
StartModule ==
  /\ pc = "next"
  /\ Room(1)
  /\ out' = Append(out, <<>>)
  /\ pc' = "ports"
  /\ UNCHANGED <<ports, ops, regIdx, tables, junk, ltl>>

VisitPort ==
  /\ pc = "ports"
  /\ Room(1)
  /\ \E c \in PortChoices :
       /\ \A k \in CurPorts : ports[k].name # c.name
       /\ LET port == [name |-> c.name, in |-> c.in, w |-> c.w, m |-> CurMod]
              argNum == Cardinality({k \in CurPorts : ports[k].in = c.in})
          IN \E s \in visitPort(Cur(NullOp), port, argNum) :
               IF s.ab THEN Die
               ELSE /\ Install(s, "ports")
                    /\ ports' = Append(ports, port)
                    /\ UNCHANGED <<ops, regIdx, junk, ltl>>

\* the body walk visits the ops os (new to the model), with outcomes S
Reveal(os, S) ==
  \E s \in S :
    IF s.ab THEN Die
    ELSE /\ Install(s, "body")
         /\ ops' = ops \o os
         /\ UNCHANGED <<ports, regIdx, junk, ltl>>

VisitConstant ==
  /\ InBody /\ Room(1)
  /\ \E w \in Widths, v \in ConstVals :
       LET o == [Op("hw.constant", <<>>, w) EXCEPT !.val = v]
       IN Reveal(<<o>>, visitConstant(Cur(NewId), NewId, o))

VisitWire ==
  /\ InBody /\ Room(1)
  /\ \E x \in Vals :
       LET o == Op("hw.wire", <<x>>, WidthOf(x))
       IN Reveal(<<o>>, visitWire(Cur(NewId), NewId, o))

VisitBinOp ==
  /\ InBody /\ Room(1)
  /\ \E k \in BinKinds, x \in Vals :
       \E y \in ValsW(WidthOf(x)) :
         LET o == Op(k, <<x, y>>, WidthOf(x))
         IN Reveal(<<o>>, visitBinOp(Cur(NewId), NewId, o))

VisitExtract ==
  /\ InBody /\ Room(1)
  /\ \E x \in Vals, w \in Widths :
       \E low \in 0..(WidthOf(x) - w) :
         LET o == [Op("comb.extract", <<x>>, w) EXCEPT !.low = low]
         IN Reveal(<<o>>, visitExtract(Cur(NewId), NewId, o))

VisitICmp ==
  /\ InBody /\ Room(1)
  /\ \E p \in Preds, x \in Vals :
       \E y \in ValsW(WidthOf(x)) :
         LET o == [Op("comb.icmp", <<x, y>>, 1) EXCEPT !.pred = p]
         IN Reveal(<<o>>, visitICmp(Cur(NewId), NewId, o))

VisitMux ==
  /\ InBody /\ Room(1)
  /\ \E c \in ValsW(1), t \in Vals :
       \E f \in ValsW(WidthOf(t)) :
         LET o == Op("comb.mux", <<c, t, f>>, WidthOf(t))
         IN Reveal(<<o>>, visitMux(Cur(NewId), NewId, o))

\* an sv.assert directly in the module body or in an sv.always
VisitAssert ==
  /\ InBody /\ Room(1)
  /\ \E e \in ValsW(1) :
       LET o == Op("sv.assert", <<e>>, 0)
       IN Reveal(<<o>>, visitAssert(Cur(NewId), NewId, o))

\* an sv.assert whose parent is an sv.if: the walk is post-order, so the
\* assert is visited first and the sv.if right after it (no visitor)
VisitAssertInIf ==
  /\ InBody /\ Room(2)
  /\ \E e \in ValsW(1), en \in ValsW(1) :
       LET o == [Op("sv.assert", <<e, en>>, 0) EXCEPT !.ifop = NewId + 1]
       IN Reveal(<<o, Op("sv.if", <<en>>, 0)>>, visitAssert(Cur(NewId), NewId, o))

VisitAssume ==
  /\ InBody /\ Room(1)
  /\ \E e \in ValsW(1) :
       LET o == Op("sv.assume", <<e>>, 0)
       IN Reveal(<<o>>, visitAssume(Cur(NewId), NewId, o))

VisitFirReg ==
  /\ InBody /\ Room(1)
  /\ \E w \in Widths :
       LET o == [kind |-> "seq.firreg", args |-> <<>>, w |-> w, m |-> CurMod,
                 low |-> 0, val |-> 0, pred |-> "", ifop |-> NullOp]
       IN Reveal(<<o>>, visitFirReg(Cur(NewId), NewId, [name |-> "r", w |-> w]))

\* an op of a kind the TypeSwitch does not list: Default([&](auto) {})
VisitUnsupported ==
  /\ InBody /\ Room(1)
  /\ Reveal(<<Op("other", <<>>, 0)>>, {Cur(NewId)})

\* visit(hw::OutputOp): the terminator, the last op of the body walk
VisitOutput ==
  /\ InBody
  /\ pc' = "regs"
  /\ regIdx' = 1
  /\ UNCHANGED <<ports, ops, tables, out, junk, ltl>>

\* one iteration of the loop over regOps
RegNext ==
  /\ pc = "regs"
  /\ regIdx <= Len(regOps)
  /\ LET reg == regOps[regIdx]
     IN \E nx \in (IF ops[reg].args = <<>> THEN ValsW(ops[reg].w)
                   ELSE {ops[reg].args[1]}) :
          \E s \in regTransition(Cur(reg), reg, nx, ops[reg].w) :
            IF s.ab THEN Die
            ELSE /\ Install(s, "regs")
                 /\ ops' = [ops EXCEPT ![reg].args = <<nx>>]
                 /\ regIdx' = regIdx + 1
                 /\ UNCHANGED <<ports, junk, ltl>>

\* llvm::outs() << "\n===============================\n\n" ends the stream
Banner ==
  /\ pc = "regs"
  /\ regIdx > Len(regOps)
  /\ pc' = "next"
  /\ UNCHANGED <<ports, ops, regIdx, tables, out, junk, ltl>>

Next ==
  \/ StartModule
  \/ VisitPort
  \/ VisitConstant
  \/ VisitWire
  \/ VisitBinOp
  \/ VisitExtract
  \/ VisitICmp
  \/ VisitMux
  \/ VisitAssert
  \/ VisitAssertInIf
  \/ VisitAssume
  \/ VisitFirReg
  \/ VisitUnsupported
  \/ VisitOutput
  \/ RegNext
  \/ Banner

Spec == Init /\ [][Next]_vars


\* ------------------------------------------------------ reading the output
Streams == 1..Len(out)
Idx(m) == 1..Len(out[m])
RECURSIVE LinesUpTo(_)
\* number of lines of the streams 1..m
LinesUpTo(m) == IF m = 0 THEN 0 ELSE LinesUpTo(m - 1) + Len(out[m])
NLines == LinesUpTo(Len(out))
\* every line printed so far
AllLines == UNION {{out[m][i] : i \in Idx(m)} : m \in Streams}
HasSid(l) == l.inst \notin {sortStr, badStr, constraintStr}
\* the fields of a line that are line ids of operands
OperandLIDs(l) ==
  IF l.inst \in {sortStr, inputStr, stateStr, constdStr, zeroStr} THEN {}
  ELSE IF l.inst = sliceStr THEN {l.args[1]}
  ELSE {l.args[k] : k \in 1..Len(l.args)}

\* the input port behind block argument i of module m
PortOfArgIn(m, i) ==
  CHOOSE k \in 1..Len(ports) : ports[k].m = m /\ ports[k].in /\ ArgNum(k) = i
RECURSIVE DefLine(_, _)
\* the line id of the line that defines value v of module m: the port's input
\* line, the first line printed for the op, and for a wire the line that
\* defines the wire's operand; 0 when there is no such line
DefLine(m, v) ==
  IF v.k = "arg"
  THEN LET S == {i \in Idx(m) : /\ out[m][i].inst = inputStr
                                /\ out[m][i].name = ports[PortOfArgIn(m, v.i)].name}
       IN IF S = {} THEN 0 ELSE out[m][CHOOSE i \in S : TRUE].lid
  ELSE IF ops[v.i].kind = "hw.wire" THEN DefLine(m, ops[v.i].args[1])
  ELSE LET S == {i \in Idx(m) : out[m][i].src = v.i /\ out[m][i].op = v.i}
       IN IF S = {} THEN 0
          ELSE out[m][CHOOSE i \in S : \A j \in S : i <= j].lid

\* the printed operands of line l paired with the IR operands they print
\* (lines of the body walk)
Printed(l) ==
  IF l.op = NullOp THEN {}
  ELSE LET o == ops[l.op]
       IN CASE o.kind \in DOMAIN BinInst /\ l.src = l.op ->
                 {<<l.args[1], o.args[1]>>, <<l.args[2], o.args[2]>>}
            [] o.kind = "comb.icmp" /\ l.src = l.op ->
                 {<<l.args[1], o.args[1]>>, <<l.args[2], o.args[2]>>}
            [] o.kind = "comb.extract" /\ l.src = l.op ->
                 {<<l.args[1], o.args[1]>>}
            [] o.kind = "comb.mux" /\ l.src = l.op ->
                 {<<l.args[k], o.args[k]>> : k \in 1..3}
            [] o.kind = "sv.assume" /\ l.inst = constraintStr ->
                 {<<l.args[1], o.args[1]>>}
            [] o.kind = "sv.assert" /\ l.inst = notStr /\ o.ifop = NullOp ->
                 {<<l.args[1], o.args[1]>>}
            [] o.kind = "sv.assert" /\ l.inst = impliesStr ->
                 {<<l.args[1], o.args[2]>>, <<l.args[2], o.args[1]>>}
            [] OTHER -> {}
IsWire(v) == v.k = "op" /\ ops[v.i].kind = "hw.wire"
Regs == {i \in 1..Len(ops) : ops[i].kind = "seq.firreg"}

\* ------------------------------------------------------------ claims

\* C1: reference-before-use.  In every stream, every line id printed as an
\* operand of a line is the leading line id of an earlier line of the same
\* stream.
C1_RefBeforeUse ==
  \A m \in Streams : \A i \in Idx(m) :
    \A a \in OperandLIDs(out[m][i]) : \E j \in 1..(i - 1) : out[m][j].lid = a

\* C2: lid allocation.  lid is the first line id plus the number of lines
\* printed, the k-th line printed carries the k-th line id, and the line id
\* recorded for an op in opLIDMap is the leading line id of the last line
\* printed for that op.
C2_LidAllocation ==
  /\ lid = FirstLID + NLines
  /\ \A m \in Streams : \A i \in Idx(m) :
       out[m][i].lid = FirstLID + LinesUpTo(m - 1) + i - 1
  /\ \A o \in DOMAIN opLIDMap :
       LET L == {l \in AllLines : l.src = o}
       IN /\ L # {}
          /\ \A l \in L : l.lid <= opLIDMap[o]
          /\ \E l \in L : l.lid = opLIDMap[o]

\* C2, witness: lines were printed, an op has a recorded line id, and a call
\* that prints nothing (a wire) took place
C2_Witness ==
  /\ NLines >= 3
  /\ DOMAIN opLIDMap # {}
  /\ \E i \in 1..Len(ops) : ops[i].kind = "hw.wire"

\* C3: per-module emission state.  Every stream starts at line id 1 and
\* counts up, and uses nothing recorded while an earlier module was walked:
\* no sort field and no operand of a line is the line id of a line of an
\* earlier stream.
C3_PerModuleState ==
  \A m \in Streams : \A i \in Idx(m) :
    /\ out[m][i].lid = FirstLID + i - 1
    /\ \A k \in 1..(m - 1) : \A j \in Idx(k) :
         /\ HasSid(out[m][i]) => out[m][i].sid # out[k][j].lid
         /\ out[k][j].lid \notin OperandLIDs(out[m][i])

\* C4: reset encoding.  The line before every next line is an ite whose
\* condition is the module's reset input line, whose then-operand is the zero
\* line of the register's width and whose else-operand is the line that
\* defines the register's next value.
C4_ResetEncoding ==
  \A m \in Streams : \A i \in Idx(m) :
    out[m][i].inst = nextStr =>
      /\ i > 1
      /\ LET p == out[m][i - 1]
             r == out[m][i].op
         IN /\ p.inst = iteStr
            /\ \E j \in 1..(i - 1) :
                 /\ out[m][j].inst = inputStr
                 /\ out[m][j].name = resetStr
                 /\ out[m][j].lid = p.args[1]
            /\ \E j \in 1..(i - 1) :
                 /\ out[m][j].inst = zeroStr
                 /\ out[m][j].w = ops[r].w
                 /\ out[m][j].lid = p.args[2]
            /\ p.args[3] = DefLine(ops[r].m, ops[r].args[1])

\* C5: the next line.  Every next line names the state line of its register
\* and the reset ite printed just before it.
C5_NextLine ==
  \A m \in Streams : \A i \in Idx(m) :
    out[m][i].inst = nextStr =>
      /\ i > 1
      /\ out[m][i - 1].inst = iteStr
      /\ out[m][i].args[2] = out[m][i - 1].lid
      /\ \E l \in AllLines :
           /\ l.inst = stateStr
           /\ l.op = out[m][i].op
           /\ l.lid = out[m][i].args[1]

\* C6: deferred register transitions.  The state line of a register is in
\* the stream of its module; after a next line a stream holds only lines of
\* the transition phase; next lines come in the order the registers were
\* visited; and over the whole run a register has at most one next line, in
\* the stream of its module.
C6_DeferredOnce ==
  /\ \A k \in 1..Len(regOps) :
       \E i \in Idx(ops[regOps[k]].m) :
         LET l == out[ops[regOps[k]].m][i]
         IN l.inst = stateStr /\ l.op = regOps[k]
  /\ \A m \in Streams : \A i, j \in Idx(m) :
       (i < j /\ out[m][i].inst = nextStr) =>
         /\ out[m][j].inst \in {sortStr, zeroStr, iteStr, nextStr}
         /\ out[m][j].op \in Regs
         /\ out[m][j].inst = nextStr => out[m][i].op < out[m][j].op
  /\ \A r \in Regs :
       /\ Cardinality({l \in AllLines : l.inst = nextStr /\ l.op = r}) <= 1
       /\ \A m \in Streams : \A i \in Idx(m) :
            (out[m][i].inst = nextStr /\ out[m][i].op = r) => m = ops[r].m

\* C7: wire inlining.  No line is printed for a wire, and a line that
\* consumes a wire prints the line id of the line at the end of the wire
\* chain (the defining line of an op, the input line of a port).
C7_WireInlining ==
  /\ \A l \in AllLines : l.op # NullOp => ops[l.op].kind # "hw.wire"
  /\ \A m \in Streams : \A i \in Idx(m) :
       \A pr \in Printed(out[m][i]) :
         IsWire(pr[2]) => pr[1] = DefLine(m, pr[2])

\* C8: sort uniqueness.  A stream holds at most one sort line per width.
C8_SortUnique ==
  \A m \in Streams : \A i, j \in Idx(m) :
    (/\ out[m][i].inst = sortStr
     /\ out[m][j].inst = sortStr
     /\ out[m][i].args = out[m][j].args) => i = j

\* C8, witness: a stream with a sort line whose width was asked for by two
\* further lines
C8_Witness ==
  \E m \in Streams : \E i \in Idx(m) :
    /\ out[m][i].inst = sortStr
    /\ Cardinality({j \in Idx(m) : /\ HasSid(out[m][j])
                                   /\ out[m][j].sid = out[m][i].lid
                                   /\ out[m][j].w = out[m][i].w}) >= 2

\* C9: sort before consumer.  A request for a width succeeds, and every line
\* with a sort field carries the line id of an earlier sort line of the width
\* the line was printed for.
C9_SortBeforeConsumer ==
  /\ pc # "aborted"
  /\ \A l \in AllLines :
       HasSid(l) =>
         \E d \in AllLines :
           d.inst = sortStr /\ d.lid = l.sid /\ d.lid < l.lid /\ d.w = l.w

\* C10: every sort line reads <lid> sort bitvec <width>.
C10_SortLineText ==
  \A l \in AllLines :
    l.inst = sortStr => (l.ty = "bitvec" /\ l.args = <<l.w>>)

\* the lines the register loop printed for its registers
IsRegIte(l) == l.inst = iteStr /\ l.op \in Regs

\* C11: zero uniqueness.  A stream holds at most one zero line per sort id;
\* every entry of constToLIDMap is the line id of a zero line of its width;
\* and the reset ite of every register names a zero line of the register's
\* width printed before it in the stream of the module being walked.
C11_ZeroUnique ==
  /\ \A m \in Streams : \A i, j \in Idx(m) :
       (/\ out[m][i].inst = zeroStr
        /\ out[m][j].inst = zeroStr
        /\ out[m][i].sid = out[m][j].sid) => i = j
  /\ \A key \in DOMAIN constToLIDMap :
       \E l \in AllLines :
         l.inst = zeroStr /\ l.w = key[2] /\ l.lid = constToLIDMap[key]
  /\ \A m \in Streams : \A i \in Idx(m) :
       IsRegIte(out[m][i]) =>
         \E j \in 1..(i - 1) :
           /\ out[m][j].inst = zeroStr
           /\ out[m][j].w = out[m][i].w
           /\ out[m][j].lid = out[m][i].args[2]

\* C12: slice bounds.  Every slice line prints the low bit of its extract op
\* and high = low + width - 1.
C12_SliceBounds ==
  \A l \in AllLines :
    l.inst = sliceStr =>
      /\ l.args[3] = ops[l.op].low
      /\ l.args[2] = ops[l.op].low + ops[l.op].w - 1

\* the indices of the lines of stream m printed while op a was visited
LinesOf(m, a) == {i \in Idx(m) : out[m][i].op = a}
Asserts == {a \in 1..Len(ops) : ops[a].kind = "sv.assert"}

\* C13: assertion encoding.  An assert under an sv.if prints three consecutive
\* lines: implies (enable, expression), not of the implies line, bad of the
\* not line; any other assert prints two: not of the expression, bad of the
\* not line.  The operands of enable and expression are the line ids of the
\* lines that define them.
C13_AssertEncoding ==
  \A a \in Asserts :
    LET m == ops[a].m
        L == LinesOf(m, a) \ {i \in Idx(m) : out[m][i].inst = sortStr}
    IN \E i \in L :
         IF ops[a].ifop # NullOp
         THEN /\ L = {i, i + 1, i + 2}
              /\ out[m][i].inst = impliesStr
              /\ out[m][i].args = <<DefLine(m, ops[a].args[2]),
                                    DefLine(m, ops[a].args[1])>>
              /\ out[m][i + 1].inst = notStr
              /\ out[m][i + 1].args = <<out[m][i].lid>>
              /\ out[m][i + 2].inst = badStr
              /\ out[m][i + 2].args = <<out[m][i + 1].lid>>
         ELSE /\ L = {i, i + 1}
              /\ out[m][i].inst = notStr
              /\ out[m][i].args = <<DefLine(m, ops[a].args[1])>>
              /\ out[m][i + 1].inst = badStr
              /\ out[m][i + 1].args = <<out[m][i].lid>>

\* C14: a missing line id is fatal.  No line carries the no-line-id sentinel
\* as an operand: the pass stops instead.
C14_MissingLidFatal ==
  \A l \in AllLines : \A k \in 1..Len(l.args) :
    (l.inst \notin {sortStr, constdStr, sliceStr} \/ (l.inst = sliceStr /\ k = 1))
      => l.args[k] # noLID

\* C15: resetLID.  Once the ports of a module are visited, resetLID is set
\* exactly when the module has an input port named reset, and then it is the
\* line id of that port's input line in the module's stream.
C15_ResetLid ==
  pc \in {"body", "regs"} =>
    LET has == \E k \in CurPorts : ports[k].in /\ ports[k].name = resetStr
    IN /\ (resetLID # noLID) <=> has
       /\ has => \E i \in Idx(CurMod) :
                   /\ out[CurMod][i].inst = inputStr
                   /\ out[CurMod][i].name = resetStr
                   /\ out[CurMod][i].lid = resetLID

\* the frame of a step that prints nothing
NoLineFrame == UNCHANGED <<tables, out>>

\* C16: ops that contribute no line.  A step that visits an op of an
\* unsupported kind, the output op, an output port or a clock-typed input
\* port prints nothing and changes neither lid nor any table; a step that
\* visits a wire prints nothing and changes only the alias table.
C16_NoLineOps ==
  [][ /\ (Len(ops') = Len(ops) + 1 /\ ops'[Len(ops')].kind = "other")
        => NoLineFrame
      /\ (Len(ports') = Len(ports) + 1
          /\ (~ports'[Len(ports')].in \/ ports'[Len(ports')].w = 0))
        => NoLineFrame
      /\ (pc \in {"ports", "body"} /\ pc' = "regs") => NoLineFrame
      /\ (Len(ops') = Len(ops) + 1 /\ ops'[Len(ops')].kind = "hw.wire")
        => /\ UNCHANGED <<lid, resetLID, sortToLIDMap, constToLIDMap, opLIDMap,
                          inputLIDs, regOps, out>>
           /\ \A k \in DOMAIN opAliasMap :
                k \in DOMAIN opAliasMap' /\ opAliasMap'[k] = opAliasMap[k]
    ]_vars

\* C16, witness: after lines were printed, a wire was visited, and so was an
\* unsupported op, an output port or a clock port
C16_Witness ==
  /\ lid > FirstLID
  /\ \E i \in 1..Len(ops) : ops[i].kind = "hw.wire"
  /\ \/ \E i \in 1..Len(ops) : ops[i].kind = "other"
     \/ \E k \in 1..Len(ports) : ~ports[k].in \/ ports[k].w = 0

\* C29: constant-zero dedup.  A stream holds at most one constd line of
\* value 0 per width, however many constants of value 0 and that width the
\* module has; every constant of another value has one constd line of its
\* own, carrying its signed value.
C29_ConstZeroDedup ==
  /\ \A m \in Streams : \A i, j \in Idx(m) :
       (/\ out[m][i].inst = constdStr /\ out[m][i].args = <<0>>
        /\ out[m][j].inst = constdStr /\ out[m][j].args = <<0>>
        /\ out[m][i].w = out[m][j].w) => i = j
  /\ \A m \in Streams : \A i \in Idx(m) :
       (out[m][i].inst = constdStr /\ out[m][i].args # <<0>>) =>
         /\ ops[out[m][i].op].kind = "hw.constant"
         /\ out[m][i].args = <<ops[out[m][i].op].val>>
         /\ \A j \in Idx(m) :
              (out[m][j].inst = constdStr /\ out[m][j].op = out[m][i].op) => i = j

\* ======================================================================
\* LTL -> Core lowering (LTLToCore.cpp)
\*
\* The module handed to the pass is a sequence of ops (op id = index); the
\* patterns append the ops they create, rewrite uses and mark ops erased.
\* The lowered module is then run cycle by cycle: comb ops compute, registers
\* take their next value on the clock edge.
\* ======================================================================

\* C32: no fatal assertion on well-formed input.  The emitter never dies
\* inside a handler; the first request for a width prints its sort line, so
\* every line with a sort field has a sort line of its width; and the first
\* request for the zero constant of a width prints its zero line, so the
\* reset ite of every register has a zero line of the register's width.
C32_NoFatalAssertion ==
  /\ pc # "aborted"
  /\ \A l \in AllLines :
       HasSid(l) => \E d \in AllLines : d.inst = sortStr /\ d.w = l.w
  /\ \A l \in AllLines :
       IsRegIte(l) => \E z \in AllLines : z.inst = zeroStr /\ z.w = l.w

\* ---------------------------------------------------------------- bounds
\* largest delay n of a non-overlapping implication a ##n true |-> b
MaxDelay == 3
\* number of clock edges a has_been_reset circuit is run for
MaxCycles == 5

\* ------------------------------------------------------------ the IR
\* the block arguments of the module
ClkArg == 1
ResetArg == 2
AArg == 3
BArg == 4
DArg == 5
Args == {ClkArg, ResetArg, AArg, BArg, DArg}
\* a null Value
NoVal == [k |-> "none", i |-> 0]

\* an op: its operands, the width of its result (0: not an integer), its
\* integer attribute (constant value, delay), the delay's length, its name
\* (register name, icmp predicate, clock edge, event control); live: not
\* erased; repl: the value its result was replaced by
LOp(kind, args, w, attr, name) ==
  [kind |-> kind, args |-> args, w |-> w, attr |-> attr, len |-> 0,
   name |-> name, live |-> TRUE, repl |-> NoVal]
LConst(w, value) == LOp("hw.constant", <<>>, w, value, "")

\* the width of a value's type when it is an integer type, else 0
LWidth(m, v) == IF v.k = "arg" THEN 1 ELSE IF v.k = "op" THEN m[v.i].w ELSE 0

\* ---------------------------------------------------- the inputs enumerated
Edges == {"pos", "neg", "both"}
\* the length attribute of the delay op: 0 is ##n, 1 is ##[n:n+1], and an
\* absent length (an empty optional) is ##[n:$]
NoLength == -1
Lengths == {0, 1, NoLength}
Delays == 0..MaxDelay

\* verif.has_been_reset %clk, %reset
HbrModule ==
  << LOp("verif.has_been_reset", <<ArgVal(ClkArg), ArgVal(ResetArg)>>, 1, 0, "") >>
\* assert(clock(disable(implication(concat(a, delay(true, n, len)), b), d), clk))
NoiModule(n, len, edge) ==
  << LConst(1, 1),
     [LOp("ltl.delay", <<OpVal(1)>>, 0, n, "") EXCEPT !.len = len],
     LOp("ltl.concat", <<ArgVal(AArg), OpVal(2)>>, 0, 0, ""),
     LOp("ltl.implication", <<OpVal(3), ArgVal(BArg)>>, 0, 0, ""),
     LOp("ltl.disable", <<OpVal(4), ArgVal(DArg)>>, 0, 0, ""),
     LOp("ltl.clock", <<OpVal(5), ArgVal(ClkArg)>>, 0, 0, edge),
     LOp("verif.assert", <<OpVal(6)>>, 0, 0, "") >>
\* assert(clock(disable(implication(a, b), d), clk))
OiModule(edge) ==
  << LOp("ltl.implication", <<ArgVal(AArg), ArgVal(BArg)>>, 0, 0, ""),
     LOp("ltl.disable", <<OpVal(1), ArgVal(DArg)>>, 0, 0, ""),
     LOp("ltl.clock", <<OpVal(2), ArgVal(ClkArg)>>, 0, 0, edge),
     LOp("verif.assert", <<OpVal(3)>>, 0, 0, "") >>
\* assert(clock(disable(a, d), clk))
GeneralModule(edge) ==
  << LOp("ltl.disable", <<ArgVal(AArg), ArgVal(DArg)>>, 0, 0, ""),
     LOp("ltl.clock", <<OpVal(1), ArgVal(ClkArg)>>, 0, 0, edge),
     LOp("verif.assert", <<OpVal(2)>>, 0, 0, "") >>
\* asserts whose property is none of the three shapes: no clock op around
\* the disable; no disable op under the clock; a disable whose input is a
\* property (eventually a); an implication whose consequent is a property,
\* under an antecedent a ##1 true; a delay of a signal, not of true
OtherModules ==
  { << LOp("ltl.implication", <<ArgVal(AArg), ArgVal(BArg)>>, 0, 0, ""),
       LOp("ltl.disable", <<OpVal(1), ArgVal(DArg)>>, 0, 0, ""),
       LOp("verif.assert", <<OpVal(2)>>, 0, 0, "") >>,
    << LOp("ltl.implication", <<ArgVal(AArg), ArgVal(BArg)>>, 0, 0, ""),
       LOp("ltl.clock", <<OpVal(1), ArgVal(ClkArg)>>, 0, 0, "pos"),
       LOp("verif.assert", <<OpVal(2)>>, 0, 0, "") >>,
    << LOp("ltl.eventually", <<ArgVal(AArg)>>, 0, 0, ""),
       LOp("ltl.disable", <<OpVal(1), ArgVal(DArg)>>, 0, 0, ""),
       LOp("ltl.clock", <<OpVal(2), ArgVal(ClkArg)>>, 0, 0, "pos"),
       LOp("verif.assert", <<OpVal(3)>>, 0, 0, "") >>,
    << LConst(1, 1),
       LOp("ltl.delay", <<OpVal(1)>>, 0, 1, ""),
       LOp("ltl.concat", <<ArgVal(AArg), OpVal(2)>>, 0, 0, ""),
       LOp("ltl.eventually", <<ArgVal(BArg)>>, 0, 0, ""),
       LOp("ltl.implication", <<OpVal(3), OpVal(4)>>, 0, 0, ""),
       LOp("ltl.disable", <<OpVal(5), ArgVal(DArg)>>, 0, 0, ""),
       LOp("ltl.clock", <<OpVal(6), ArgVal(ClkArg)>>, 0, 0, "pos"),
       LOp("verif.assert", <<OpVal(7)>>, 0, 0, "") >>,
    << LOp("ltl.delay", <<ArgVal(BArg)>>, 0, 1, ""),
       LOp("ltl.concat", <<ArgVal(AArg), OpVal(1)>>, 0, 0, ""),
       LOp("ltl.implication", <<OpVal(2), ArgVal(BArg)>>, 0, 0, ""),
       LOp("ltl.disable", <<OpVal(3), ArgVal(DArg)>>, 0, 0, ""),
       LOp("ltl.clock", <<OpVal(4), ArgVal(ClkArg)>>, 0, 0, "pos"),
       LOp("verif.assert", <<OpVal(5)>>, 0, 0, "") >> }
\* modules with an op after the assert: a comb op no pattern looks at, a
\* second verif op with a pattern (has_been_reset), one without (cover), and
\* a has_been_reset followed by an assert of no shape
MixedModules ==
  { OiModule("pos") \o << LOp("comb.and", <<ArgVal(AArg), ArgVal(BArg)>>, 1, 0, "") >>,
    GeneralModule("neg") \o HbrModule,
    OiModule("pos") \o << LOp("verif.cover", <<ArgVal(AArg)>>, 0, 0, "") >>,
    HbrModule \o << LOp("ltl.disable", <<ArgVal(AArg), ArgVal(DArg)>>, 0, 0, ""),
                     LOp("verif.assert", <<OpVal(2)>>, 0, 0, "") >> }
InputModules ==
  {HbrModule}
    \cup {NoiModule(n, len, e) : n \in Delays, len \in Lengths, e \in Edges}
    \cup {OiModule(e) : e \in Edges}
    \cup {GeneralModule(e) : e \in Edges}
    \cup OtherModules
    \cup MixedModules

\* ------------------------------------------------------------ the rewriter
\* rewriter.create: the op is appended, its result is Res of the new module
Create(m, op) == Append(m, op)
Res(m) == OpVal(Len(m))
\* Value::replaceAllUsesWith
ReplaceUses(m, old, new) ==
  [i \in 1..Len(m) |->
     LET a == m[i].args
     IN [m[i] EXCEPT !.args = [k \in 1..Len(a) |-> IF a[k] = old THEN new ELSE a[k]]]]
\* rewriter.eraseOp
EraseOp(m, id) == [m EXCEPT ![id].live = FALSE]
\* rewriter.replaceOp: the uses of the op's result become new, the op goes
ReplaceOp(m, id, new) ==
  [ReplaceUses(m, OpVal(id), new) EXCEPT ![id].live = FALSE, ![id].repl = new]

\* BackedgeBuilder::get creates a placeholder op ("backedge") whose result
\* stands for the value.  Backedge::setValue: every use of the placeholder
\* becomes the value; the placeholder records the value (repl) and how many
\* times it was set (attr)
BackedgeSet(m, ph, v) ==
  LET r == ReplaceUses(m, ph, v)
  IN [i \in 1..Len(m) |->
        IF i = ph.i THEN [r[i] EXCEPT !.repl = v, !.attr = @ + 1] ELSE r[i]]
\* ~BackedgeBuilder: a placeholder that was set is erased; one that was not
\* is the error the builder reports, and stays
BackedgeScopeExit(m, ph) == IF m[ph.i].attr = 0 THEN m ELSE EraseOp(m, ph.i)

\* llvm::Log2_64: 63 - countl_zero(n), that is floor(log2(n)) for n >= 1.
\* For n = 0 it is 63 - 64 returned as an unsigned, 2^32 - 1, written here as
\* the -1 it is congruent to: the + 1 of the caller wraps it to 0.
RECURSIVE Log2_64(_)
Log2_64(n) == IF n = 0 THEN -1 ELSE IF n = 1 THEN 0 ELSE 1 + Log2_64(n \div 2)

\* an event control that is posedge whatever the edge
ltlToSVEventControlPosedge(ce) == "posedge"

\* ltlToSVEventControl
ltlToSVEventControl(ce) ==
  CASE ce = "pos" -> "posedge"
    [] ce = "neg" -> "negedge"
    [] ce = "both" -> "edge"

\* the result of the k-th op created after the n ops of a module
V(n, k) == OpVal(n + k)

\* HasBeenResetOpConversion::matchAndRewrite without the gate on reset: the op
\* is replaced by the register
HasBeenResetUngated(m, id) ==
  LET n == Len(m)
      reset == m[id].args[2]
      created ==
        << LConst(1, 0),
           LConst(1, 1),
           LOp("backedge", <<>>, 1, 0, ""),
           LOp("comb.or", <<reset, V(n, 3)>>, 1, 0, ""),
           LOp("seq.to_clock", <<m[id].args[1]>>, 0, 0, ""),
           LOp("seq.compreg", <<V(n, 4), V(n, 5), NoVal, NoVal, V(n, 1)>>, 1, 0, "hbr") >>
  IN BackedgeScopeExit(ReplaceOp(BackedgeSet(m \o created, V(n, 3), V(n, 6)),
                                 id, V(n, 6)),
                       V(n, 3))

\* HasBeenResetOpConversion::matchAndRewrite with a register that reset
\* resets to constZero
HasBeenResetResettable(m, id) ==
  LET n == Len(m)
      reset == m[id].args[2]
      created ==
        << LConst(1, 0),
           LConst(1, 1),
           LOp("backedge", <<>>, 1, 0, ""),
           LOp("comb.or", <<reset, V(n, 3)>>, 1, 0, ""),
           LOp("seq.to_clock", <<m[id].args[1]>>, 0, 0, ""),
           LOp("seq.compreg", <<V(n, 4), V(n, 5), reset, V(n, 1), V(n, 1)>>, 1, 0, "hbr") >>
      after ==
        << LOp("comb.xor", <<reset, V(n, 2)>>, 1, 0, ""),
           LOp("comb.and", <<V(n, 6), V(n, 7)>>, 1, 0, "") >>
  IN BackedgeScopeExit(ReplaceOp(BackedgeSet(m \o created, V(n, 3), V(n, 6)) \o after,
                                 id, V(n, 8)),
                       V(n, 3))

\* HasBeenResetOpConversion::matchAndRewrite.  The ops are created in this
\* order: constZero, constOne, the back-edge reg, orReset, the clock
\* (createOrFold<seq::ToClockOp> of an i1 block argument folds nothing), the
\* register hbr (operands <<input, clock, reset, reset value, power-on
\* value>>), then reg is bound to hbr, then notReset and the and that
\* replaces the op.  Once bound, the back-edge stands for hbr.
HasBeenResetOpConversion(m, id) ==
  LET n == Len(m)
      reset == m[id].args[2]
      created ==
        << LConst(1, 0),
           LConst(1, 1),
           LOp("backedge", <<>>, 1, 0, ""),
           LOp("comb.or", <<reset, V(n, 3)>>, 1, 0, ""),
           LOp("seq.to_clock", <<m[id].args[1]>>, 0, 0, ""),
           LOp("seq.compreg", <<V(n, 4), V(n, 5), NoVal, NoVal, V(n, 1)>>, 1, 0, "hbr") >>
      after ==
        << LOp("comb.xor", <<reset, V(n, 2)>>, 1, 0, ""),
           LOp("comb.and", <<V(n, 6), V(n, 7)>>, 1, 0, "") >>
  IN BackedgeScopeExit(ReplaceOp(BackedgeSet(m \o created, V(n, 3), V(n, 6)) \o after,
                                 id, V(n, 8)),
                       V(n, 3))

\* ------------------------------------------------------------ the matchers
\* the values and ops matchAndRewrite binds
NoBinds ==
  [ltlClock |-> NoVal, disableCond |-> NoVal, disableInput |-> NoVal,
   antecedent |-> NoVal, consequent |-> NoVal,
   clockOp |-> NullOp, delayOp |-> NullOp, disableOp |-> NullOp,
   implOp |-> NullOp, concatOp |-> NullOp]
Matched(ok, b) == [ok |-> ok, b |-> b]

\* I1ValueMatcher::match: binds as soon as the value is 1-bit
m_Bool(m, v, what, b) ==
  IF LWidth(m, v) = 1 THEN Matched(TRUE, [b EXCEPT ![what] = v])
  ELSE Matched(FALSE, b)

\* m_One on the operand's defining op: an integer constant of value 1
m_One(m, v, b) ==
  Matched(v.k = "op" /\ m[v.i].kind = "hw.constant" /\ m[v.i].attr = 1, b)

\* BindingRecursivePatternMatcher::match for an op of two operands: the op
\* kind and operand count are tested, both operand matchers run, and the op
\* is bound when both matched
m_OpWithBind2(m, v, kind, opBind, b, M1(_, _), M2(_, _)) ==
  IF v.k # "op" THEN Matched(FALSE, b)
  ELSE IF m[v.i].kind # kind \/ Len(m[v.i].args) # 2 THEN Matched(FALSE, b)
  ELSE LET r1 == M1(m[v.i].args[1], b)
           r2 == M2(m[v.i].args[2], r1.b)
           ok == r1.ok /\ r2.ok
       IN Matched(ok, IF ok THEN [r2.b EXCEPT ![opBind] = v.i] ELSE r2.b)

\* the same for an op of one operand
m_OpWithBind1(m, v, kind, opBind, b, M1(_, _)) ==
  IF v.k # "op" THEN Matched(FALSE, b)
  ELSE IF m[v.i].kind # kind \/ Len(m[v.i].args) # 1 THEN Matched(FALSE, b)
  ELSE LET r1 == M1(m[v.i].args[1], b)
       IN Matched(r1.ok, IF r1.ok THEN [r1.b EXCEPT ![opBind] = v.i] ELSE r1.b)

\* the NOI pattern: a ##n true |-> b
matchNOI(m, prop, b) ==
  m_OpWithBind2(m, prop, "ltl.clock", "clockOp", b,
    LAMBDA v1, b1 :
      m_OpWithBind2(m, v1, "ltl.disable", "disableOp", b1,
        LAMBDA v2, b2 :
          m_OpWithBind2(m, v2, "ltl.implication", "implOp", b2,
            LAMBDA v3, b3 :
              m_OpWithBind2(m, v3, "ltl.concat", "concatOp", b3,
                LAMBDA v4, b4 : m_Bool(m, v4, "antecedent", b4),
                LAMBDA v4, b4 :
                  m_OpWithBind1(m, v4, "ltl.delay", "delayOp", b4,
                    LAMBDA v5, b5 : m_One(m, v5, b5))),
            LAMBDA v3, b3 : m_Bool(m, v3, "consequent", b3)),
        LAMBDA v2, b2 : m_Bool(m, v2, "disableCond", b2)),
    LAMBDA v1, b1 : m_Bool(m, v1, "ltlClock", b1))

\* the OI pattern: a |-> b
matchOI(m, prop, b) ==
  m_OpWithBind2(m, prop, "ltl.clock", "clockOp", b,
    LAMBDA v1, b1 :
      m_OpWithBind2(m, v1, "ltl.disable", "disableOp", b1,
        LAMBDA v2, b2 :
          m_OpWithBind2(m, v2, "ltl.implication", "implOp", b2,
            LAMBDA v3, b3 : m_Bool(m, v3, "antecedent", b3),
            LAMBDA v3, b3 : m_Bool(m, v3, "consequent", b3)),
        LAMBDA v2, b2 : m_Bool(m, v2, "disableCond", b2)),
    LAMBDA v1, b1 : m_Bool(m, v1, "ltlClock", b1))

\* the generic AssertProperty pattern
matchGeneral(m, prop, b) ==
  m_OpWithBind2(m, prop, "ltl.clock", "clockOp", b,
    LAMBDA v1, b1 :
      m_OpWithBind2(m, v1, "ltl.disable", "disableOp", b1,
        LAMBDA v2, b2 : m_Bool(m, v2, "disableInput", b2),
        LAMBDA v2, b2 : m_Bool(m, v2, "disableCond", b2)),
    LAMBDA v1, b1 : m_Bool(m, v1, "ltlClock", b1))

\* ------------------------------------------------------------ the lowerings
\* visit(ltl::DisableOp) replacing the disable op by (and condition operand)
visitDisableAnd(m, id, operand) ==
  ReplaceOp(Create(m, LOp("comb.and",
                          <<m[id].args[2],
                            IF operand # NoVal THEN operand ELSE m[id].args[1]>>,
                          1, 0, "")),
            id, V(Len(m), 1))

\* AssertOpConversionPattern::visit(ltl::DisableOp): the disable op is
\* replaced by (or condition operand); the or is the op created next
visitDisable(m, id, operand) ==
  ReplaceOp(Create(m, LOp("comb.or",
                          <<m[id].args[2],
                            IF operand # NoVal THEN operand ELSE m[id].args[1]>>,
                          1, 0, "")),
            id, V(Len(m), 1))

\* makeImplication encoding a -> b as a || b
makeImplicationNoNot(n, antecedent, consequent) ==
  << LConst(1, 1),
     LOp("comb.xor", <<antecedent, V(n, 1)>>, 1, 0, ""),
     LOp("comb.or", <<antecedent, consequent>>, 1, 0, "") >>

\* makeImplication: a -> b is encoded as !a || b.  The ops created after the
\* n ops of the module: constOne, nA, and the or that is returned
makeImplication(n, antecedent, consequent) ==
  << LConst(1, 1),
     LOp("comb.xor", <<antecedent, V(n, 1)>>, 1, 0, ""),
     LOp("comb.or", <<V(n, 2), consequent>>, 1, 0, "") >>

\* the delay register of makeNonOverlappingImplication without the
\* saturation: delay' = delay + 1
noiDelayRegFree(n, delayCycles, ltlClock, disableCond) ==
  << LConst(Log2_64(delayCycles) + 1, 0),
     LConst(Log2_64(delayCycles) + 1, 1),
     LOp("backedge", <<>>, Log2_64(delayCycles) + 1, 0, ""),
     LOp("comb.add", <<V(n, 3), V(n, 2)>>, Log2_64(delayCycles) + 1, 0, ""),
     LConst(Log2_64(delayCycles) + 1, delayCycles),
     LOp("comb.icmp", <<V(n, 3), V(n, 5)>>, 1, 0, "eq"),
     LOp("comb.mux", <<V(n, 6), V(n, 5), V(n, 4)>>, Log2_64(delayCycles) + 1, 0, ""),
     LOp("seq.to_clock", <<ltlClock>>, 0, 0, ""),
     LOp("seq.compreg", <<V(n, 4), V(n, 8), disableCond, V(n, 1), V(n, 1)>>,
         Log2_64(delayCycles) + 1, 0, "delay_") >>

\* makeNonOverlappingImplication, the delay register.  The ops created after
\* the n ops of the module: constZero, constOneW, the back-edge delayReg,
\* delayInc, delayMax, delayEqMax, delayMux, the clock, and the register
\* delay' = (delay == delayCycles) ? delayCycles : delay + 1 that the disable
\* condition resets to 0
noiDelayReg(n, delayCycles, ltlClock, disableCond) ==
  << LConst(Log2_64(delayCycles) + 1, 0),
     LConst(Log2_64(delayCycles) + 1, 1),
     LOp("backedge", <<>>, Log2_64(delayCycles) + 1, 0, ""),
     LOp("comb.add", <<V(n, 3), V(n, 2)>>, Log2_64(delayCycles) + 1, 0, ""),
     LConst(Log2_64(delayCycles) + 1, delayCycles),
     LOp("comb.icmp", <<V(n, 3), V(n, 5)>>, 1, 0, "eq"),
     LOp("comb.mux", <<V(n, 6), V(n, 5), V(n, 4)>>, Log2_64(delayCycles) + 1, 0, ""),
     LOp("seq.to_clock", <<ltlClock>>, 0, 0, ""),
     LOp("seq.compreg", <<V(n, 7), V(n, 8), disableCond, V(n, 1), V(n, 1)>>,
         Log2_64(delayCycles) + 1, 0, "delay_") >>

\* the antecedent registers of makeNonOverlappingImplication with every
\* register fed by the antecedent itself
noiPipelineFlat(n, antecedent, w, delayCycles, clock, disableCond) ==
  << LConst(w, 0),
     LOp("seq.compreg", <<antecedent, clock, disableCond, V(n, 1), V(n, 1)>>,
         1, 0, "antecedent_0") >>
    \o [i \in 1..(IF delayCycles = 0 THEN 0 ELSE delayCycles - 1) |->
          LOp("seq.compreg", <<antecedent, clock, disableCond, V(n, 1), V(n, 1)>>,
              1, 0, "antecedent_" \o ToString(i))]

\* makeNonOverlappingImplication, the antecedent registers.  The ops created
\* after the n ops of the module: resetVal, antecedent_0 fed by the
\* antecedent, and antecedent_i fed by antecedent_(i-1) for 1 <= i < delayCycles
noiPipeline(n, antecedent, w, delayCycles, clock, disableCond) ==
  << LConst(w, 0),
     LOp("seq.compreg", <<antecedent, clock, disableCond, V(n, 1), V(n, 1)>>,
         1, 0, "antecedent_0") >>
    \o [i \in 1..(IF delayCycles = 0 THEN 0 ELSE delayCycles - 1) |->
          LOp("seq.compreg", <<V(n, 1 + i), clock, disableCond, V(n, 1), V(n, 1)>>,
              1, 0, "antecedent_" \o ToString(i))]

\* the final condition of makeNonOverlappingImplication without the negation
\* of the last pipeline register
noiConditionNoNot(n, delayReg, delayMax, aI, w, consequent, disableCond) ==
  << LOp("comb.icmp", <<delayReg, delayMax>>, 1, 0, "ult"),
     LConst(w, 1),
     LOp("comb.xor", <<aI, V(n, 2)>>, 1, 0, ""),
     LOp("comb.or", <<aI, consequent>>, 1, 0, ""),
     LOp("comb.or", <<V(n, 1), V(n, 4)>>, 1, 0, ""),
     LOp("comb.or", <<V(n, 5), disableCond>>, 1, 0, "") >>

\* makeNonOverlappingImplication, the final condition
\* delayReg < delayMax || (aI -> consequent) || reset.  The ops created after
\* the n ops of the module: condMin, constOneAi, notAi, implAiConsequent,
\* condLhs and res
noiCondition(n, delayReg, delayMax, aI, w, consequent, disableCond) ==
  << LOp("comb.icmp", <<delayReg, delayMax>>, 1, 0, "ult"),
     LConst(w, 1),
     LOp("comb.xor", <<aI, V(n, 2)>>, 1, 0, ""),
     LOp("comb.or", <<V(n, 3), consequent>>, 1, 0, ""),
     LOp("comb.or", <<V(n, 1), V(n, 4)>>, 1, 0, ""),
     LOp("comb.or", <<V(n, 5), disableCond>>, 1, 0, "") >>

\* makeNonOverlappingImplication without the delayReg.setValue call
makeNonOverlappingImplicationUnbound(m, antecedent, consequent, delayN, ltlclock, disableCond) ==
  LET n == Len(m)
      delayCycles == m[delayN].attr
      stages == IF delayCycles > 1 THEN delayCycles ELSE 1
      counter == m \o noiDelayReg(n, delayCycles, m[ltlclock].args[2], disableCond)
      pipeline == noiPipeline(n + 9, antecedent, LWidth(m, antecedent), delayCycles,
                              V(n, 8), disableCond)
      condition == noiCondition(n + 10 + stages, V(n, 3), V(n, 5),
                                V(n, 10 + stages), LWidth(m, antecedent),
                                consequent, disableCond)
  IN BackedgeScopeExit(counter \o pipeline \o condition, V(n, 3))

\* makeNonOverlappingImplication: the module with the ops created (the last
\* one is res).  The back-edge delayReg, third op created, is bound to the
\* delay register, ninth op created, before the pipeline is built, and
\* stands for it from then on.
makeNonOverlappingImplication(m, antecedent, consequent, delayN, ltlclock, disableCond) ==
  LET n == Len(m)
      delayCycles == m[delayN].attr
      stages == IF delayCycles > 1 THEN delayCycles ELSE 1
      counter == BackedgeSet(m \o noiDelayReg(n, delayCycles, m[ltlclock].args[2],
                                              disableCond),
                             V(n, 3), V(n, 9))
      pipeline == noiPipeline(n + 9, antecedent, LWidth(m, antecedent), delayCycles,
                              V(n, 8), disableCond)
      condition == noiCondition(n + 10 + stages, V(n, 9), V(n, 5),
                                V(n, 10 + stages), LWidth(m, antecedent),
                                consequent, disableCond)
  IN BackedgeScopeExit(counter \o pipeline \o condition, V(n, 3))

\* rewriter.eraseOp of the ops bound among ids (NullOp: not bound)
EraseBound(m, ids) ==
  [i \in 1..Len(m) |-> IF i \in ids THEN [m[i] EXCEPT !.live = FALSE] ELSE m[i]]

\* the rewrite after the match, leaving the concat op in place
rewriteMatchedKeepConcat(m, id, b, isNOI, isOI) ==
  LET body == IF isNOI
              THEN makeNonOverlappingImplication(m, b.antecedent, b.consequent,
                                                 b.delayOp, b.clockOp, b.disableCond)
              ELSE IF isOI
              THEN m \o makeImplication(Len(m), b.antecedent, b.consequent)
              ELSE m
      disableInput == IF isNOI \/ isOI THEN Res(body) ELSE b.disableInput
      dis == visitDisable(body, b.disableOp, disableInput)
      always == LOp("sv.always", <<b.ltlClock>>, 0, 0,
                    ltlToSVEventControl(m[b.clockOp].name))
      assert == LOp("sv.assert", <<Res(dis)>>, 0, Len(dis) + 1, "immediate")
  IN [ok |-> TRUE,
      m |-> EraseBound(ReplaceOp(dis \o <<always, assert>>, id, NoVal),
                       {b.clockOp, b.implOp, b.delayOp})]

\* AssertOpConversionPattern::matchAndRewrite, after the match: the body of
\* the assertion is built; without a disable op or a clock op bound the
\* pattern fails here; else the disable op becomes an or, the sv.always and
\* the sv.assert in it are created, and the matched ops are erased
rewriteMatched(m, id, b, isNOI, isOI) ==
  LET body == IF isNOI
              THEN makeNonOverlappingImplication(m, b.antecedent, b.consequent,
                                                 b.delayOp, b.clockOp, b.disableCond)
              ELSE IF isOI
              THEN m \o makeImplication(Len(m), b.antecedent, b.consequent)
              ELSE m
      disableInput == IF isNOI \/ isOI THEN Res(body) ELSE b.disableInput
      dis == visitDisable(body, b.disableOp, disableInput)
      always == LOp("sv.always", <<b.ltlClock>>, 0, 0,
                    ltlToSVEventControl(m[b.clockOp].name))
      assert == LOp("sv.assert", <<Res(dis)>>, 0, Len(dis) + 1, "immediate")
  IN IF b.disableOp = NullOp \/ b.clockOp = NullOp
     THEN [ok |-> FALSE, m |-> body]
     ELSE [ok |-> TRUE,
           m |-> EraseBound(ReplaceOp(dis \o <<always, assert>>, id, NoVal),
                            {b.clockOp, b.implOp, b.concatOp, b.delayOp})]

\* matchAndRewrite where the implication is built before the property is
\* known to have a shape
matchAndRewriteBuildFirst(m, id) ==
  LET noi == matchNOI(m, m[id].args[1], NoBinds)
      oi == matchOI(m, m[id].args[1], noi.b)
      gen == matchGeneral(m, m[id].args[1], oi.b)
      built == m \o makeImplication(Len(m), oi.b.antecedent, oi.b.consequent)
  IN IF noi.ok
     THEN IF m[noi.b.delayOp].len # 0 THEN [ok |-> FALSE, m |-> m]
          ELSE rewriteMatched(m, id, noi.b, TRUE, FALSE)
     ELSE IF oi.ok THEN rewriteMatched(m, id, oi.b, FALSE, TRUE)
     ELSE IF gen.ok THEN rewriteMatched(m, id, gen.b, FALSE, FALSE)
     ELSE [ok |-> FALSE, m |-> built]

\* matchAndRewrite where an absent delay length counts as 0
matchAndRewriteLengthPresent(m, id) ==
  LET noi == matchNOI(m, m[id].args[1], NoBinds)
      oi == matchOI(m, m[id].args[1], noi.b)
      gen == matchGeneral(m, m[id].args[1], oi.b)
      failure == [ok |-> FALSE, m |-> m]
  IN IF noi.ok
     THEN IF m[noi.b.delayOp].len > 0 THEN failure
          ELSE rewriteMatched(m, id, noi.b, TRUE, FALSE)
     ELSE IF oi.ok THEN rewriteMatched(m, id, oi.b, FALSE, TRUE)
     ELSE IF gen.ok THEN rewriteMatched(m, id, gen.b, FALSE, FALSE)
     ELSE failure

\* matchAndRewrite where the overlapping implication is built from what the
\* failed NOI match left bound
matchAndRewriteStale(m, id) ==
  LET noi == matchNOI(m, m[id].args[1], NoBinds)
      oi == matchOI(m, m[id].args[1], noi.b)
      gen == matchGeneral(m, m[id].args[1], oi.b)
      failure == [ok |-> FALSE, m |-> m]
  IN IF noi.ok
     THEN IF m[noi.b.delayOp].len # 0 THEN failure
          ELSE rewriteMatched(m, id, noi.b, TRUE, FALSE)
     ELSE IF oi.ok THEN rewriteMatched(m, id, noi.b, FALSE, TRUE)
     ELSE IF gen.ok THEN rewriteMatched(m, id, gen.b, FALSE, FALSE)
     ELSE failure

\* AssertOpConversionPattern::matchAndRewrite: ok and the rewritten module,
\* or a match failure and the module as the pattern left it.  The three
\* matchPattern calls write into the same variables: what one call bound
\* is still there when the next one runs.  A length that is absent compares
\* unequal to 0.
matchAndRewrite(m, id) ==
  LET noi == matchNOI(m, m[id].args[1], NoBinds)
      oi == matchOI(m, m[id].args[1], noi.b)
      gen == matchGeneral(m, m[id].args[1], oi.b)
      failure == [ok |-> FALSE, m |-> m]
  IN IF noi.ok
     THEN IF m[noi.b.delayOp].len # 0 THEN failure
          ELSE rewriteMatched(m, id, noi.b, TRUE, FALSE)
     ELSE IF oi.ok THEN rewriteMatched(m, id, oi.b, FALSE, TRUE)
     ELSE IF gen.ok THEN rewriteMatched(m, id, gen.b, FALSE, FALSE)
     ELSE failure

\* ------------------------------------------------ running the lowered module
\* bitwise and / or / xor of two w-bit words
RECURSIVE Bitwise(_, _, _, _)
Bitwise(kind, x, y, w) ==
  IF w = 0 THEN 0
  ELSE LET bx == x % 2
           by == y % 2
           bit == CASE kind = "comb.and" -> IF bx = 1 /\ by = 1 THEN 1 ELSE 0
                    [] kind = "comb.or" -> IF bx = 1 \/ by = 1 THEN 1 ELSE 0
                    [] kind = "comb.xor" -> IF bx # by THEN 1 ELSE 0
       IN bit + 2 * Bitwise(kind, x \div 2, y \div 2, w - 1)

\* a w-bit word read as a two's complement number
Signed(x, w) == IF x >= 2 ^ (w - 1) THEN x - 2 ^ w ELSE x

\* the value of v in a cycle where the registers hold rv and the inputs are in
RECURSIVE Eval(_, _, _, _)
Eval(m, v, rv, in) ==
  IF v.k = "arg" THEN in[v.i]
  ELSE
    LET o == m[v.i]
        x(k) == Eval(m, o.args[k], rv, in)
    IN CASE o.kind = "hw.constant" -> o.attr % (2 ^ o.w)
         [] o.kind \in {"comb.and", "comb.or", "comb.xor"} ->
              Bitwise(o.kind, x(1), x(2), o.w)
         [] o.kind = "comb.add" -> (x(1) + x(2)) % (2 ^ o.w)
         [] o.kind = "comb.icmp" ->
              LET w == LWidth(m, o.args[1])
              IN (CASE o.name = "eq" -> IF x(1) = x(2) THEN 1 ELSE 0
                    [] o.name = "ult" -> IF x(1) < x(2) THEN 1 ELSE 0
                    [] o.name = "slt" ->
                         IF Signed(x(1), w) < Signed(x(2), w) THEN 1 ELSE 0)
         [] o.kind = "comb.mux" -> IF x(1) = 1 THEN x(2) ELSE x(3)
         [] o.kind = "seq.compreg" -> rv[v.i]
         [] o.kind = "seq.to_clock" -> x(1)

\* the registers of a module
CompRegs(m) == {i \in 1..Len(m) : m[i].live /\ m[i].kind = "seq.compreg"}
\* the registers at power-on hold their power-on value
PowerOn(m) == [i \in CompRegs(m) |-> Eval(m, m[i].args[5], Empty, Empty)]
\* the registers after the clock edge that ends a cycle: the reset value when
\* the register has a reset and it is high, else the input
ClockEdge(m, rv, in) ==
  [i \in CompRegs(m) |->
     IF m[i].args[3] # NoVal /\ Eval(m, m[i].args[3], rv, in) = 1
     THEN Eval(m, m[i].args[4], rv, in)
     ELSE Eval(m, m[i].args[1], rv, in)]

\* the op of a kind in a module (at most one in the modules enumerated)
Find(m, kind) == {i \in 1..Len(m) : m[i].kind = kind}
HasKind(m, kind) == Find(m, kind) # {}
TheOp(m, kind) == CHOOSE i \in Find(m, kind) : TRUE
\* the shape of the module handed to the pass
IsHbr == HasKind(mod, "verif.has_been_reset")
IsNoi == HasKind(mod, "ltl.delay")
IsOi == HasKind(mod, "ltl.implication") /\ ~IsNoi
IsGeneral == HasKind(mod, "verif.assert") /\ ~HasKind(mod, "ltl.implication")

\* the values the inputs may take in one cycle: a has_been_reset module
\* reads reset, an assert module reads a, b and d
InputVals ==
  IF IsHbr /\ ~HasKind(mod, "verif.assert")
  THEN {[i \in Args |-> IF i = ResetArg THEN r ELSE 0] : r \in 0..1}
  ELSE {[i \in Args |-> CASE i = AArg -> a [] i = BArg -> b [] i = DArg -> d
                          [] OTHER -> 0] : a \in 0..1, b \in 0..1, d \in 0..1}

\* the number of clock edges a lowered module is run for; of the asserts
\* that differ in the clock edge only, the one on the positive edge is run
Horizon ==
  IF IsHbr /\ ~HasKind(mod, "verif.assert") THEN MaxCycles
  ELSE IF \E c \in Find(mod, "ltl.clock") : mod[c].name # "pos" THEN 0
  ELSE IF IsNoi THEN mod[TheOp(mod, "ltl.delay")].attr + 1
  ELSE 1

\* ------------------------------------------------------------ actions
InitLTL ==
  /\ pc = "next"
  /\ ports = <<>>
  /\ ops = <<>>
  /\ regIdx = 1
  /\ lid = FirstLID
  /\ resetLID = noLID
  /\ sortToLIDMap = Empty
  /\ constToLIDMap = Empty
  /\ opLIDMap = Empty
  /\ opAliasMap = Empty
  /\ inputLIDs = Empty
  /\ regOps = <<>>
  /\ out = <<>>
  /\ junk = [x \in {"sort", "const"} |-> noLID]
  /\ mod \in InputModules
  /\ orig = mod
  /\ status = "input"
  /\ regv = Empty
  /\ inp = Empty
  /\ hist = <<>>

\* the op kinds of the Verif dialect that the modules enumerated hold
VerifDialect == {"verif.has_been_reset", "verif.assert", "verif.cover"}

\* a conversion target under which only the ops that have a pattern are
\* illegal
IllegalWithPattern(m) ==
  {i \in 1..Len(m) : m[i].live /\ m[i].kind \in {"verif.has_been_reset",
                                                   "verif.assert"}}

\* the ops the conversion target says are illegal: those of the Verif
\* dialect.  applyPartialConversion legalizes them in the order of the walk.
Illegal(m) == {i \in 1..Len(m) : m[i].live /\ m[i].kind \in VerifDialect}
FirstIllegal(m) == CHOOSE i \in Illegal(m) : \A j \in Illegal(m) : i <= j

\* the next illegal op is a verif.has_been_reset: its pattern applies
ConvertHasBeenReset ==
  /\ status = "input"
  /\ Illegal(mod) # {}
  /\ mod[FirstIllegal(mod)].kind = "verif.has_been_reset"
  /\ mod' = HasBeenResetOpConversion(mod, FirstIllegal(mod))
  /\ UNCHANGED <<orig, status, regv, inp, hist, btor>>

\* the next illegal op is a verif.assert: its pattern applies, or reports a
\* match failure and the module is as the pattern left it
ConvertAssert ==
  /\ status = "input"
  /\ Illegal(mod) # {}
  /\ mod[FirstIllegal(mod)].kind = "verif.assert"
  /\ LET r == matchAndRewrite(mod, FirstIllegal(mod))
     IN /\ mod' = r.m
        /\ status' = IF r.ok THEN "input" ELSE "nomatch"
  /\ UNCHANGED <<orig, regv, inp, hist, btor>>

\* the next illegal op has no pattern: it cannot be legalized
ConvertUnsupported ==
  /\ status = "input"
  /\ Illegal(mod) # {}
  /\ mod[FirstIllegal(mod)].kind \notin {"verif.has_been_reset", "verif.assert"}
  /\ status' = "nomatch"
  /\ UNCHANGED <<mod, orig, regv, inp, hist, btor>>

\* applyPartialConversion failed: the rewrites are undone and the pass
\* signals failure
SignalPassFailure ==
  /\ status = "nomatch"
  /\ status' = "failure"
  /\ mod' = orig
  /\ UNCHANGED <<orig, regv, inp, hist, btor>>

\* applyPartialConversion succeeded: no illegal op is left; the lowered
\* module powers on
PassSucceeds ==
  /\ status = "input"
  /\ Illegal(mod) = {}
  /\ status' = "success"
  /\ regv' = PowerOn(mod)
  /\ inp' \in InputVals
  /\ UNCHANGED <<mod, orig, hist, btor>>

\* one clock cycle of the lowered module ends: the registers take their next
\* value and the inputs of the next cycle arrive
Tick ==
  /\ status = "success"
  /\ Len(hist) < Horizon
  /\ regv' = ClockEdge(mod, regv, inp)
  /\ hist' = Append(hist, inp)
  /\ inp' \in InputVals
  /\ UNCHANGED <<mod, orig, status, btor>>

NextLTL ==
  \/ ConvertHasBeenReset
  \/ ConvertAssert
  \/ ConvertUnsupported
  \/ SignalPassFailure
  \/ PassSucceeds
  \/ Tick

SpecLTL == InitLTL /\ [][NextLTL]_vars

\* ------------------------------------------------ reading the lowered module
\* the value that replaced the result of the has_been_reset op, this cycle
HbrOut == Eval(mod, mod[TheOp(mod, "verif.has_been_reset")].repl, regv, inp)
\* the condition of the immediate assert, this cycle
AssertCond == Eval(mod, mod[TheOp(mod, "sv.assert")].args[1], regv, inp)
\* the delay of the matched non-overlapping implication
DelayN == mod[TheOp(mod, "ltl.delay")].attr
\* the register of a name
RegNamed(name) == CHOOSE i \in CompRegs(mod) : mod[i].name = name
\* the delay counter and its value, the value of the last antecedent register
DelayRegOp == RegNamed("delay_")
Count == regv[DelayRegOp]
LastStage == regv[RegNamed("antecedent_" \o ToString(DelayN - 1))]
\* reset was high in some cycle before this one
ResetSeen == \E s \in 1..Len(hist) : hist[s][ResetArg] = 1

\* the reset trace of the has_been_reset example and the output expected
RefReset == <<1, 1, 0, 0, 1, 0>>
RefOut == <<0, 0, 1, 1, 0, 1>>
\* the run so far follows the example trace
OnRefTrace ==
  /\ Len(hist) < Len(RefReset)
  /\ \A k \in 1..Len(hist) : hist[k][ResetArg] = RefReset[k]
  /\ inp[ResetArg] = RefReset[Len(hist) + 1]

\* C17: has_been_reset output.  In every cycle the value that replaced the
\* op is 1 exactly when reset was high in an earlier cycle and is low now;
\* on the trace reset = 1,1,0,0,1,0 the output is 0,0,1,1,0,1.
C17_HasBeenResetOutput ==
  (status = "success" /\ IsHbr) =>
    /\ HbrOut = (IF ResetSeen /\ inp[ResetArg] = 0 THEN 1 ELSE 0)
    /\ OnRefTrace => HbrOut = RefOut[Len(hist) + 1]

\* C17, witness: the last cycle of the example trace, output 1 after a second
\* reset
C17_Witness ==
  /\ status = "success" /\ IsHbr
  /\ OnRefTrace
  /\ Len(hist) + 1 = Len(RefReset)
  /\ HbrOut = 1

\* C18: OI equivalence.  For a |-> b under disable d, the condition of the
\* immediate assert is d OR ((NOT a) OR b), for all values of a, b, d.
C18_OIEquivalence ==
  (status = "success" /\ IsOi) =>
    AssertCond = (IF inp[DArg] = 1 \/ inp[AArg] = 0 \/ inp[BArg] = 1 THEN 1 ELSE 0)

\* C18, witness: the one falsifying assignment a = 1, b = 0, d = 0
C18_Witness ==
  /\ status = "success" /\ IsOi
  /\ inp[AArg] = 1 /\ inp[BArg] = 0 /\ inp[DArg] = 0
  /\ AssertCond = 0

RECURSIVE Saturated(_, _)
Saturated(k, n) ==
  IF k = 0 THEN 0
  ELSE IF hist[k][DArg] = 1 THEN 0
  ELSE IF Saturated(k - 1, n) = n THEN n
  ELSE Saturated(k - 1, n) + 1

\* C20: NOI delay counter.  For n >= 1 the counter has floor(log2(n)) + 1 bits, starts
\* at 0, after each clock edge holds 0 if the disable condition was high, n
\* if it held n, and one more otherwise; it stays within 0..n, and the
\* increment it takes never wraps.
C20_DelayCounter ==
  (status = "success" /\ IsNoi /\ DelayN >= 1) =>
    LET w == mod[DelayRegOp].w
        inc == CHOOSE i \in Find(mod, "comb.add") : TRUE
    IN /\ 2 ^ (w - 1) <= DelayN /\ DelayN < 2 ^ w
       /\ Count = Saturated(Len(hist), DelayN)
       /\ 0 <= Count /\ Count <= DelayN
       /\ Count # DelayN => Eval(mod, OpVal(inc), regv, inp) = Count + 1

\* C20, witness: a counter of 2 bits that reached n = 3, the largest value of
\* its width, and stayed there over a further clock edge
C20_Witness ==
  /\ status = "success" /\ IsNoi
  /\ DelayN = 3
  /\ Len(hist) = DelayN + 1
  /\ \A k \in 1..Len(hist) : hist[k][DArg] = 0
  /\ Count = DelayN

\* the antecedent registers of the lowered module
Stages ==
  {i \in CompRegs(mod) :
     mod[i].name \in {"antecedent_" \o ToString(k) : k \in 0..MaxDelay}}
\* a at the cycle n cycles before this one, when the run is that long and
\* the disable condition was low since; else the value a stage is reset to
DelayedA(n) ==
  IF Len(hist) >= n /\ \A k \in (Len(hist) - n + 1)..Len(hist) : hist[k][DArg] = 0
  THEN (IF n = 0 THEN inp[AArg] ELSE hist[Len(hist) - n + 1][AArg])
  ELSE 0

\* C21: NOI antecedent pipeline.  For every delay n the match accepts, n = 0
\* included, the lowered module has exactly n antecedent registers a_0 ..
\* a_(n-1); a_0 is fed by the antecedent and a_i by a_(i-1); each has
\* power-on value 0 and is reset to 0 by the disable condition; the value
\* negated in the condition is the last stage, the antecedent n cycles ago.
C21_NOIPipeline ==
  (status = "success" /\ IsNoi) =>
    /\ Cardinality(Stages) = DelayN
    /\ \A k \in 0..(DelayN - 1) :
         \E i \in Stages :
           /\ mod[i].name = "antecedent_" \o ToString(k)
           /\ mod[i].args[1] =
                (IF k = 0 THEN ArgVal(AArg)
                 ELSE OpVal(RegNamed("antecedent_" \o ToString(k - 1))))
           /\ mod[i].args[3] = ArgVal(DArg)
           /\ Eval(mod, mod[i].args[4], regv, inp) = 0
           /\ Eval(mod, mod[i].args[5], regv, inp) = 0
    /\ mod[TheOp(mod, "comb.xor")].args[1] =
         (IF DelayN = 0 THEN ArgVal(AArg) ELSE OpVal(RegNamed("antecedent_" \o ToString(DelayN - 1))))
    /\ Eval(mod, mod[TheOp(mod, "comb.xor")].args[1], regv, inp) = DelayedA(DelayN)

\* ------------------------------------------ the shape of the input property
\* the assert of the module handed to the pass, and whether it was
\* rewritten; the module is looked at as the pass left it, before it is run
\* (running it changes no op)
TheAssert == TheOp(orig, "verif.assert")
Rewritten ==
  /\ hist = <<>>
  /\ HasKind(orig, "verif.assert")
  /\ status \in {"input", "success"}
  /\ ~mod[TheAssert].live
\* the assert is the op the pattern reported a match failure for
AssertFailed ==
  /\ HasKind(orig, "verif.assert")
  /\ status = "nomatch"
  /\ FirstIllegal(mod) = TheAssert
\* v is the result of an op of a kind; v is a 1-bit integer
DefOp(v, kind) == v.k = "op" /\ orig[v.i].kind = kind
I1(v) == LWidth(orig, v) = 1
\* the property, and the ops under it when they are what their name says
PropV == orig[TheAssert].args[1]
ClockId == PropV.i
DisableId == orig[ClockId].args[1].i
BodyV == orig[DisableId].args[1]
ImplId == BodyV.i
ConcatId == orig[ImplId].args[1].i
DelayId == orig[ConcatId].args[2].i
\* clock(disable(_, d), clk)
Wrapped ==
  /\ DefOp(PropV, "ltl.clock")
  /\ DefOp(orig[ClockId].args[1], "ltl.disable")
  /\ I1(orig[ClockId].args[2])
  /\ I1(orig[DisableId].args[2])
ShapeNOI ==
  /\ Wrapped
  /\ DefOp(BodyV, "ltl.implication")
  /\ I1(orig[ImplId].args[2])
  /\ DefOp(orig[ImplId].args[1], "ltl.concat")
  /\ I1(orig[ConcatId].args[1])
  /\ DefOp(orig[ConcatId].args[2], "ltl.delay")
  /\ DefOp(orig[DelayId].args[1], "hw.constant")
  /\ orig[orig[DelayId].args[1].i].attr = 1
ShapeOI ==
  /\ Wrapped
  /\ DefOp(BodyV, "ltl.implication")
  /\ I1(orig[ImplId].args[1])
  /\ I1(orig[ImplId].args[2])
ShapeGeneral == Wrapped /\ I1(BodyV)
\* the ops of the module handed to the pass that the assert pattern erased
\* or replaced
Gone ==
  {i \in 1..Len(orig) : ~mod[i].live /\ orig[i].kind # "verif.has_been_reset"}
\* the or that replaced the disable op, and its second operand
DisableOr == mod[DisableId].repl
DisableInput == mod[DisableOr.i].args[2]
\* v is (or (xor x 1) y)
IsImplies(v, x, y) ==
  /\ v.k = "op" /\ mod[v.i].kind = "comb.or"
  /\ mod[v.i].args[2] = y
  /\ mod[v.i].args[1].k = "op"
  /\ mod[mod[v.i].args[1].i].kind = "comb.xor"
  /\ mod[mod[v.i].args[1].i].args[1] = x

\* C22: shape recognition order.  A rewritten assert had the NOI, else the
\* OI, else the general shape, and was lowered as the first of these it has:
\* the condition is built from the operands of that shape, the always block
\* is clocked by its clock, and the ops gone are the ops of that shape and no
\* other; an assert the pattern gave up on had none of the shapes, or the
\* NOI shape with a delay length other than 0.
C22_ShapeOrder ==
  /\ Rewritten =>
       /\ ShapeNOI \/ ShapeOI \/ ShapeGeneral
       /\ mod[DisableOr.i].kind = "comb.or"
       /\ mod[DisableOr.i].args[1] = orig[DisableId].args[2]
       /\ mod[TheOp(mod, "sv.always")].args[1] = orig[ClockId].args[2]
       /\ ShapeNOI =>
            /\ \E r \in CompRegs(mod) : mod[r].name = "delay_"
            /\ mod[DisableInput.i].kind = "comb.or"
            /\ mod[DisableInput.i].args[2] = orig[DisableId].args[2]
            /\ \E x \in Stages :
                 IsImplies(mod[mod[DisableInput.i].args[1].i].args[2],
                           OpVal(x), orig[ImplId].args[2])
            /\ Gone = {TheAssert, ClockId, DisableId, ImplId, ConcatId, DelayId}
       /\ (~ShapeNOI /\ ShapeOI) =>
            /\ CompRegs(mod) = {}
            /\ IsImplies(DisableInput, orig[ImplId].args[1], orig[ImplId].args[2])
            /\ Gone = {TheAssert, ClockId, DisableId, ImplId}
       /\ (~ShapeNOI /\ ~ShapeOI) =>
            /\ DisableInput = BodyV
            /\ Gone = {TheAssert, ClockId, DisableId}
  /\ AssertFailed =>
       \/ ~(ShapeNOI \/ ShapeOI \/ ShapeGeneral)
       \/ ShapeNOI /\ orig[DelayId].len # 0

\* C22, witness: an overlapping implication was lowered after the NOI match
\* had failed part-way, leaving the consequent bound
C22_Witness ==
  /\ Rewritten /\ ShapeOI /\ ~ShapeNOI
  /\ ~matchNOI(orig, PropV, NoBinds).ok
  /\ matchNOI(orig, PropV, NoBinds).b.consequent = orig[ImplId].args[2]
  /\ matchNOI(orig, PropV, NoBinds).b.implOp = NullOp

\* the pattern is about to be applied to the assert
AtAssert ==
  /\ status = "input"
  /\ HasKind(orig, "verif.assert")
  /\ Illegal(mod) # {}
  /\ FirstIllegal(mod) = TheAssert

\* C23: unrecognized shape.  Applied to an assert whose property has none of
\* the three shapes, the pattern reports a match failure and the module is
\* op for op what it was before: nothing created, replaced or erased.
C23_UnrecognizedShape ==
  [][(AtAssert /\ ~(ShapeNOI \/ ShapeOI \/ ShapeGeneral)) =>
       (status' = "nomatch" /\ mod' = mod)]_vars

\* C23, witness: the match failure of an assert whose disable has a property,
\* not a 1-bit value, as its input
C23_Witness ==
  /\ AssertFailed
  /\ Wrapped /\ ~I1(BodyV) /\ DefOp(BodyV, "ltl.eventually")

\* C24: delay length check.  Applied to an assert of the NOI shape whose
\* delay has a length other than 0, absent included, the pattern reports a
\* match failure, tries no other shape, and leaves the module as it was.
C24_DelayLength ==
  [][(AtAssert /\ ShapeNOI /\ orig[DelayId].len # 0) =>
       (status' = "nomatch" /\ mod' = mod)]_vars

\* C24, witness: the match failure of a ##[n:$] delay, n = 2
C24_Witness ==
  /\ AssertFailed
  /\ ShapeNOI /\ orig[DelayId].len = NoLength /\ orig[DelayId].attr = 2
  /\ mod = orig

\* a verif op of the module handed to the pass that no pattern converts
Unconvertible(i) ==
  /\ orig[i].kind \in VerifDialect
  /\ orig[i].kind # "verif.has_been_reset"
  /\ \/ orig[i].kind # "verif.assert"
     \/ ~(ShapeNOI \/ ShapeOI \/ ShapeGeneral)
     \/ ShapeNOI /\ orig[DelayId].len # 0

\* C25: completeness.  When the pass has succeeded the module holds no op of
\* the Verif dialect, and the module handed to the pass held no verif op
\* that cannot be converted; a match failure or an op without a pattern is
\* followed by the pass signalling failure, with the module as it was handed
\* in, and a failed pass never turns into a success.
C25_Completeness ==
  /\ [](status = "success" =>
          /\ \A i \in 1..Len(mod) : mod[i].live => mod[i].kind \notin VerifDialect
          /\ \A i \in 1..Len(orig) : ~Unconvertible(i))
  /\ [][/\ status = "nomatch" => (status' = "failure" /\ mod' = orig)
        /\ status = "failure" => status' = "failure"]_vars

\* C25, witness: the pass failed on a module whose assert was converted and
\* whose cover has no pattern
C25_Witness ==
  /\ status = "failure"
  /\ HasKind(orig, "verif.cover")
  /\ ShapeOI
  /\ mod = orig

\* the ops of the shape the assert has: the ops the match binds
MatchedOps ==
  {TheAssert, ClockId, DisableId}
    \cup (IF ShapeNOI \/ ShapeOI THEN {ImplId} ELSE {})
    \cup (IF ShapeNOI THEN {ConcatId, DelayId} ELSE {})

\* C26: erasure of matched ops.  After an assert is rewritten, the clock,
\* implication, concat and delay ops of its shape are erased, the disable op
\* is replaced by an or of the disable condition, the assert is replaced by
\* the one immediate sv.assert, which reads that or and sits in the one
\* sv.always created with it, and every other op of the module is as it was.
C26_Erasure ==
  Rewritten =>
    /\ \A i \in MatchedOps : ~mod[i].live
    /\ \A i \in MatchedOps \ {DisableId} : mod[i].repl = NoVal
    /\ DisableOr.k = "op" /\ DisableOr.i > Len(orig)
    /\ mod[DisableOr.i].live /\ mod[DisableOr.i].kind = "comb.or"
    /\ mod[DisableOr.i].args[1] = orig[DisableId].args[2]
    /\ Cardinality(Find(mod, "sv.assert")) = 1
    /\ Cardinality(Find(mod, "sv.always")) = 1
    /\ LET a == TheOp(mod, "sv.assert")
       IN /\ mod[a].live /\ mod[a].name = "immediate"
          /\ mod[a].args = <<DisableOr>>
          /\ mod[a].attr = TheOp(mod, "sv.always")
          /\ a > Len(orig) /\ mod[a].attr > Len(orig)
          /\ mod[mod[a].attr].live
    /\ \A i \in 1..Len(orig) :
         (i \notin MatchedOps /\ orig[i].kind # "verif.has_been_reset") =>
           mod[i] = orig[i]

\* C26, witness: a lowered a ##2 true |-> b: all five kinds of op matched,
\* and the constant true under the delay left in place
C26_Witness ==
  /\ Rewritten /\ ShapeNOI /\ status = "success"
  /\ orig[DelayId].attr = 2
  /\ MatchedOps = 2..7
  /\ mod[1].live

\* C27: edge polarity.  The event control of the always block created for a
\* rewritten assert is posedge exactly when the edge of the matched clock op
\* is positive, negedge exactly when it is negative, edge exactly when it is
\* both, and the block's clock is the clock operand of that clock op.
C27_EdgePolarity ==
  Rewritten =>
    LET always == mod[TheOp(mod, "sv.always")]
        edge == orig[ClockId].name
    IN /\ (edge = "pos") <=> (always.name = "posedge")
       /\ (edge = "neg") <=> (always.name = "negedge")
       /\ (edge = "both") <=> (always.name = "edge")
       /\ always.name \in {"posedge", "negedge", "edge"}
       /\ always.args = <<orig[ClockId].args[2]>>

\* C27, witness: a clock op on both edges, lowered to an always @(edge clk)
C27_Witness ==
  /\ Rewritten
  /\ orig[ClockId].name = "both"
  /\ mod[TheOp(mod, "sv.always")].name = "edge"
  /\ mod[TheOp(mod, "sv.always")].args = <<ArgVal(ClkArg)>>

\* the back-edge placeholders of the module
Backedges == Find(mod, "backedge")
\* register r reads its own output through its input: an operand of the op
\* that computes its input, or of an operand of that op, is r
FeedsBack(r) ==
  LET in == mod[r].args[1]
      uses(v) == IF v.k = "op" THEN {mod[v.i].args[k] : k \in 1..Len(mod[v.i].args)}
                 ELSE {}
  IN OpVal(r) \in uses(in) \cup UNION {uses(v) : v \in uses(in)}

\* C28: back-edge lifecycle.  Every back-edge the has_been_reset and NOI
\* lowerings created was set exactly once, to the register it stands for (hbr
\* or delay_, of its width, reading its own output), and was consumed when
\* the builder scope ended; each such register has its back-edge; no op of the
\* module uses a placeholder.  (The module is looked at as the lowerings
\* left it: running it changes no op.)
C28_BackedgeLifecycle ==
  hist = <<>> =>
  /\ \A p \in Backedges :
       /\ mod[p].attr = 1
       /\ ~mod[p].live
       /\ mod[p].repl.k = "op"
       /\ mod[p].repl.i \in CompRegs(mod)
       /\ mod[mod[p].repl.i].name \in {"hbr", "delay_"}
       /\ mod[mod[p].repl.i].w = mod[p].w
       /\ FeedsBack(mod[p].repl.i)
       /\ \A i \in 1..Len(mod) : \A k \in 1..Len(mod[i].args) :
            mod[i].args[k] # OpVal(p)
  /\ \A r \in CompRegs(mod) :
       mod[r].name \in {"hbr", "delay_"} =>
         \E p \in Backedges : mod[p].repl = OpVal(r)
  /\ Cardinality(Backedges) =
       Cardinality({r \in CompRegs(mod) : mod[r].name \in {"hbr", "delay_"}})

\* C28, witness: the lowered a ##3 true |-> b, whose back-edge is the 2-bit
\* delay register, read by the increment, both comparisons and itself
C28_Witness ==
  /\ status = "success" /\ IsNoi /\ DelayN = 3
  /\ \E p \in Backedges :
       /\ mod[p].w = 2
       /\ mod[p].repl = OpVal(DelayRegOp)
       /\ Cardinality({i \in 1..Len(mod) :
                         \E k \in 1..Len(mod[i].args) :
                           mod[i].args[k] = OpVal(DelayRegOp)}) = 3

\* the register of the has_been_reset lowering and its value
HbrReg == RegNamed("hbr")
HbrRun == status = "success" /\ IsHbr

\* C30: has_been_reset register.  The register is 1 bit wide, has power-on
\* value 0 and no reset, and its input is reset OR its own output; it holds 1
\* exactly when reset was high in an earlier cycle, so from one cycle to the
\* next it goes to 1 when reset is high and never goes from 1 to 0, reset
\* high again or not.
C30_HbrRegister ==
  /\ [](HbrRun =>
          /\ mod[HbrReg].w = 1
          /\ mod[HbrReg].args[3] = NoVal /\ mod[HbrReg].args[4] = NoVal
          /\ Eval(mod, mod[HbrReg].args[5], regv, inp) = 0
          /\ mod[HbrReg].args[1].k = "op"
          /\ mod[mod[HbrReg].args[1].i].kind = "comb.or"
          /\ mod[mod[HbrReg].args[1].i].args = <<ArgVal(ResetArg), OpVal(HbrReg)>>
          /\ Len(hist) = 0 => regv[HbrReg] = 0
          /\ regv[HbrReg] = (IF ResetSeen THEN 1 ELSE 0))
  /\ [][HbrRun =>
          /\ inp[ResetArg] = 1 => regv'[HbrReg] = 1
          /\ regv[HbrReg] = 1 => regv'[HbrReg] = 1]_vars

\* C30, witness: the register holds 1 in a cycle in which reset is high
\* again, after a cycle in which it was low, and held 1 there too
C30_Witness ==
  /\ HbrRun
  /\ Len(hist) = 3
  /\ hist[1][ResetArg] = 1 /\ hist[2][ResetArg] = 0 /\ hist[3][ResetArg] = 1
  /\ inp[ResetArg] = 1
  /\ regv[HbrReg] = 1

\* the cycle this state is in, counted from 0 at power-on, and the inputs of
\* cycle k up to it
Now == Len(hist)
InputAt(k) == IF k = Now THEN inp ELSE hist[k + 1]
\* a lowered non-overlapping implication of delay n >= 1 that is running
NoiRun == status = "success" /\ IsNoi /\ DelayN >= 1
\* the disable condition was high in one of the n cycles before this one
DisabledWithin(n) ==
  \E s \in 0..(Now - 1) : Now - s <= n /\ InputAt(s)[DArg] = 1

\* C31: NOI monitor semantics.  For a ##n true |-> b under disable d, n >= 1,
\* over every input trace: in a cycle t >= n with d low in every cycle from
\* t-n to t, the condition of the immediate assert is false exactly when a
\* was high in cycle t-n and b is low in cycle t; in a cycle fewer than n
\* cycles after power-on, or at most n cycles after a cycle with d high, or
\* with d high, the condition is true.
C31_NOIMonitor ==
  NoiRun =>
    /\ (Now >= DelayN /\ \A k \in (Now - DelayN)..Now : InputAt(k)[DArg] = 0) =>
         (AssertCond = 0 <=>
            InputAt(Now - DelayN)[AArg] = 1 /\ inp[BArg] = 0)
    /\ (Now < DelayN \/ DisabledWithin(DelayN) \/ inp[DArg] = 1) =>
         AssertCond = 1

\* C31, witness: n = 2 and the condition is false in cycle 3, the first cycle
\* more than n cycles after d was high (cycle 0), a high in cycle 1, b low now
C31_Witness ==
  /\ NoiRun
  /\ DelayN = 2 /\ Now = 3
  /\ InputAt(0)[DArg] = 1
  /\ \A k \in 1..3 : InputAt(k)[DArg] = 0
  /\ InputAt(1)[AArg] = 1 /\ inp[BArg] = 0
  /\ AssertCond = 0

\* a lowered assert that is running, and the operand of its sv.assert
AssertRun == status = "success" /\ HasKind(orig, "verif.assert")
AssertOperand == mod[TheOp(mod, "sv.assert")].args[1]

\* C33: general assert-property and disable gating.  For an assert matched
\* as clock(disable(x, d), clk) with x a 1-bit signal, the operand of the
\* immediate assert is the op (or d x) that replaced the disable op, so the
\* condition is d OR x in every cycle; for all three shapes the condition is
\* true in every cycle in which d is high.
C33_DisableGating ==
  AssertRun =>
    /\ ShapeGeneral =>
         /\ AssertOperand = DisableOr
         /\ mod[AssertOperand.i].kind = "comb.or"
         /\ mod[AssertOperand.i].live
         /\ mod[AssertOperand.i].args = <<orig[DisableId].args[2], BodyV>>
         /\ AssertCond = (IF \/ Eval(mod, orig[DisableId].args[2], regv, inp) = 1
                             \/ Eval(mod, BodyV, regv, inp) = 1 THEN 1 ELSE 0)
    /\ (ShapeNOI \/ ShapeOI \/ ShapeGeneral) =>
         (Eval(mod, orig[DisableId].args[2], regv, inp) = 1 => AssertCond = 1)

\* C33, witness: the general shape with x low and d high: the condition is
\* true by the disable condition alone
C33_Witness ==
  /\ AssertRun
  /\ ShapeGeneral
  /\ Eval(mod, BodyV, regv, inp) = 0
  /\ inp[DArg] = 1
  /\ AssertCond = 1

====
